---- MODULE Spec2Model ----
(***************************************************************************)
(* Octobase: the infinite pan/zoom canvas (src/src/components/Canvas.tsx), *)
(* the shape list owned by App (src/src/App.tsx) and the coordinate        *)
(* utilities (src/src/App.tsx, lines 642-727).                             *)
(*                                                                         *)
(* JavaScript numbers are modelled as exact rationals <<n, d>> in lowest   *)
(* terms with d > 0, so 0.9, 1.1, 0.1 and every quotient by the zoom are   *)
(* represented exactly.  Each event handler is one atomic action: React    *)
(* re-renders and re-registers the handlers between two events, so a       *)
(* handler reads the state left by the previous one.                       *)
(*                                                                         *)
(* Not modelled because no handler reads them: isHoveringShape,            *)
(* hoveredShapeId (cursor style only), hasMovedRef and panStartRef (only   *)
(* written).                                                               *)
(***************************************************************************)
EXTENDS Integers, Sequences, FiniteSets, TLC

(***************************************************************************)
(* Numbers                                                                 *)
(***************************************************************************)
Abs(n) == IF n < 0 THEN -n ELSE n

RECURSIVE GCD(_, _)
GCD(a, b) == IF b = 0 THEN a ELSE GCD(b, a % b)

\* The rational n/d (d # 0) in lowest terms with a positive denominator.
Frac(n, d) ==
  LET g == GCD(Abs(n), Abs(d))
      s == IF d < 0 THEN -1 ELSE 1
  IN  <<(s * n) \div g, (s * d) \div g>>

Num(n) == <<n, 1>>

RAdd(a, b) ==
  LET g == GCD(a[2], b[2])
  IN  Frac(a[1] * (b[2] \div g) + b[1] * (a[2] \div g), (a[2] \div g) * b[2])

RNeg(a) == <<-a[1], a[2]>>

RSub(a, b) == RAdd(a, RNeg(b))

RMul(a, b) ==
  LET g1 == GCD(Abs(a[1]), b[2])
      g2 == GCD(Abs(b[1]), a[2])
  IN  Frac((a[1] \div g1) * (b[1] \div g2), (a[2] \div g2) * (b[2] \div g1))

\* a / b for b # 0 (every divisor of the handlers below is a zoom or a
\* distance, which the inputs keep non-zero).
RDiv(a, b) == RMul(a, Frac(b[2], b[1]))

RLe(a, b) ==
  LET g == GCD(a[2], b[2])
  IN  a[1] * (b[2] \div g) <= b[1] * (a[2] \div g)

RLt(a, b) == ~RLe(b, a)

RMin(a, b) == IF RLe(a, b) THEN a ELSE b

RMax(a, b) == IF RLe(a, b) THEN b ELSE a

RAbs(a) == <<Abs(a[1]), a[2]>>

Zero == Num(0)

Half(a) == RDiv(a, Num(2))

RSq(a) == RMul(a, a)

(***************************************************************************)
(* Coordinate utilities                                                    *)
(***************************************************************************)
\* screenToWorld with the offset subtracted after the division.
screenToWorldOffsetLast(screenX, screenY, vs) ==
  [x |-> RSub(RDiv(screenX, vs.zoom), vs.x),
   y |-> RSub(RDiv(screenY, vs.zoom), vs.y)]

\* screenToWorld: (screen - offset) / zoom.
screenToWorld(screenX, screenY, vs) ==
  [x |-> RDiv(RSub(screenX, vs.x), vs.zoom),
   y |-> RDiv(RSub(screenY, vs.y), vs.zoom)]

\* worldToScreen: world * zoom + offset.
worldToScreen(worldX, worldY, vs) ==
  [x |-> RAdd(RMul(worldX, vs.zoom), vs.x),
   y |-> RAdd(RMul(worldY, vs.zoom), vs.y)]

\* clientToWorld: subtract the canvas rectangle's left/top, then screenToWorld.
clientToWorld(clientX, clientY, canvasRect, vs) ==
  screenToWorld(RSub(clientX, canvasRect.left), RSub(clientY, canvasRect.top), vs)

(***************************************************************************)
(* Hit testing                                                             *)
(***************************************************************************)
\* Bounding-box containment with inclusive bounds (text and square).
PointInBox(worldX, worldY, shape) ==
  /\ RLe(shape.x, worldX)
  /\ RLe(worldX, RAdd(shape.x, shape.width))
  /\ RLe(shape.y, worldY)
  /\ RLe(worldY, RAdd(shape.y, shape.height))

\* distance <= radius with distance = sqrt(dx^2 + dy^2).  Over the rationals
\* sqrt(s) <= r is r >= 0 /\ s <= r^2; |dx| > r or |dy| > r already decides
\* it, which keeps the squares small.
PointInCircle(worldX, worldY, shape) ==
  LET centerX == RAdd(shape.x, Half(shape.width))
      centerY == RAdd(shape.y, Half(shape.height))
      radius  == Half(RMin(shape.width, shape.height))
      dx      == RAbs(RSub(worldX, centerX))
      dy      == RAbs(RSub(worldY, centerY))
  IN  /\ RLe(Zero, radius)
      /\ RLe(dx, radius)
      /\ RLe(dy, radius)
      /\ RLe(RAdd(RSq(dx), RSq(dy)), RSq(radius))

\* JavaScript numbers that are not finite: <<1, 0>> is Infinity, <<-1, 0>> is
\* -Infinity and <<0, 0>> is NaN; every other number is a rational <<n, d>>
\* with d > 0.
JsInfinity == <<1, 0>>
JsNegInfinity == <<-1, 0>>
JsNaN == <<0, 0>>

JsSign(a) == IF a[1] > 0 THEN 1 ELSE IF a[1] < 0 THEN -1 ELSE 0

\* a / b for finite a and b: a division by zero raises nothing, it gives an
\* infinity of a's sign, or NaN for 0 / 0.
JsDiv(a, b) == IF b = Zero THEN <<JsSign(a), 0>> ELSE RDiv(a, b)

\* a * b: NaN * x and 0 * Infinity are NaN.
JsMul(a, b) ==
  IF a[2] = 0 \/ b[2] = 0 THEN <<JsSign(a) * JsSign(b), 0>> ELSE RMul(a, b)

\* a + b: NaN + x and Infinity + -Infinity are NaN.
JsAdd(a, b) ==
  CASE a[2] # 0 /\ b[2] # 0 -> RAdd(a, b)
    [] a = JsNaN \/ b = JsNaN -> JsNaN
    [] a[2] = 0 /\ b[2] = 0 -> IF a = b THEN a ELSE JsNaN
    [] a[2] = 0 -> a
    [] OTHER -> b

\* a <= b: false when either is NaN.
JsLe(a, b) ==
  CASE a[2] # 0 /\ b[2] # 0 -> RLe(a, b)
    [] a = JsNaN \/ b = JsNaN -> FALSE
    [] a = JsNegInfinity \/ b = JsInfinity -> TRUE
    [] OTHER -> FALSE

\* dot00 * dot11 - dot01 * dot01 of the triangle branch, the divisor of
\* invDenom: zero exactly when the triangle has no area.
TriangleDenominator(shape) ==
  LET v0x == RSub(RAdd(shape.x, shape.width), RAdd(shape.x, Half(shape.width)))
      v0y == RSub(RAdd(shape.y, shape.height), shape.y)
      v1x == RSub(shape.x, RAdd(shape.x, Half(shape.width)))
      v1y == RSub(RAdd(shape.y, shape.height), shape.y)
      dot00 == RAdd(RMul(v0x, v0x), RMul(v0y, v0y))
      dot01 == RAdd(RMul(v0x, v1x), RMul(v0y, v1y))
      dot11 == RAdd(RMul(v1x, v1x), RMul(v1y, v1y))
  IN  RSub(RMul(dot00, dot11), RMul(dot01, dot01))

\* Barycentric test on apex (x + w/2, y), base (x, y + h), (x + w, y + h).
\* invDenom is computed without a test of its divisor; u and v are products
\* with it.
PointInTriangle(worldX, worldY, shape) ==
  LET x1 == RAdd(shape.x, Half(shape.width))
      y1 == shape.y
      x2 == shape.x
      y2 == RAdd(shape.y, shape.height)
      x3 == RAdd(shape.x, shape.width)
      y3 == RAdd(shape.y, shape.height)
      v0x == RSub(x3, x1)
      v0y == RSub(y3, y1)
      v1x == RSub(x2, x1)
      v1y == RSub(y2, y1)
      v2x == RSub(worldX, x1)
      v2y == RSub(worldY, y1)
      dot00 == RAdd(RMul(v0x, v0x), RMul(v0y, v0y))
      dot01 == RAdd(RMul(v0x, v1x), RMul(v0y, v1y))
      dot02 == RAdd(RMul(v0x, v2x), RMul(v0y, v2y))
      dot11 == RAdd(RMul(v1x, v1x), RMul(v1y, v1y))
      dot12 == RAdd(RMul(v1x, v2x), RMul(v1y, v2y))
      invDenom == JsDiv(Num(1), TriangleDenominator(shape))
      u == JsMul(RSub(RMul(dot11, dot02), RMul(dot01, dot12)), invDenom)
      v == JsMul(RSub(RMul(dot00, dot12), RMul(dot01, dot02)), invDenom)
  IN  JsLe(Zero, u) /\ JsLe(Zero, v) /\ JsLe(JsAdd(u, v), Num(1))

\* The quotients isPointInShape computes for a shape: invDenom for a
\* triangle, none for the other kinds (their divisions are by 2).
QuotientsOf(shape) ==
  IF shape.type = "triangle"
  THEN {JsDiv(Num(1), TriangleDenominator(shape))}
  ELSE {}

\* isPointInShape with every kind tested by its bounding box.
isPointInShapeByBox(worldX, worldY, shape) ==
  shape.type \in {"text", "square", "circle", "triangle"} /\ PointInBox(worldX, worldY, shape)

isPointInShape(worldX, worldY, shape) ==
  CASE shape.type = "text"     -> PointInBox(worldX, worldY, shape)
    [] shape.type = "square"   -> PointInBox(worldX, worldY, shape)
    [] shape.type = "circle"   -> PointInCircle(worldX, worldY, shape)
    [] shape.type = "triangle" -> PointInTriangle(worldX, worldY, shape)
    [] OTHER                   -> FALSE

\* RectLeft read from the start corner.
RectLeftOfStart(rect) == rect.startX

\* The rectangle's corners are not ordered: min/max first.
RectLeft(rect)   == RMin(rect.startX, rect.endX)
RectRight(rect)  == RMax(rect.startX, rect.endX)
RectTop(rect)    == RMin(rect.startY, rect.endY)
RectBottom(rect) == RMax(rect.startY, rect.endY)

BoxIntersectsRect(left, right, top, bottom, rect) ==
  ~(\/ RLt(right, RectLeft(rect))
    \/ RLt(RectRight(rect), left)
    \/ RLt(bottom, RectTop(rect))
    \/ RLt(RectBottom(rect), top))

\* CircleIntersectsRect with the distance strictly below the radius.
CircleIntersectsRectStrictly(shape, rect) ==
  LET centerX  == RAdd(shape.x, Half(shape.width))
      centerY  == RAdd(shape.y, Half(shape.height))
      radius   == Half(RMin(shape.width, shape.height))
      closestX == RMax(RectLeft(rect), RMin(centerX, RectRight(rect)))
      closestY == RMax(RectTop(rect), RMin(centerY, RectBottom(rect)))
      dx       == RAbs(RSub(centerX, closestX))
      dy       == RAbs(RSub(centerY, closestY))
  IN  /\ RLt(Zero, radius)
      /\ RLt(RAdd(RSq(dx), RSq(dy)), RSq(radius))

CircleIntersectsRect(shape, rect) ==
  LET centerX  == RAdd(shape.x, Half(shape.width))
      centerY  == RAdd(shape.y, Half(shape.height))
      radius   == Half(RMin(shape.width, shape.height))
      closestX == RMax(RectLeft(rect), RMin(centerX, RectRight(rect)))
      closestY == RMax(RectTop(rect), RMin(centerY, RectBottom(rect)))
      dx       == RAbs(RSub(centerX, closestX))
      dy       == RAbs(RSub(centerY, closestY))
  IN  /\ RLe(Zero, radius)
      /\ RLe(dx, radius)
      /\ RLe(dy, radius)
      /\ RLe(RAdd(RSq(dx), RSq(dy)), RSq(radius))

\* TriangleIntersectsRect without the test of the bounding boxes: a vertex
\* in the rectangle, or the rectangle's centre in the triangle.
TriangleIntersectsRectByShape(shape, rect) ==
  LET x1 == RAdd(shape.x, Half(shape.width))
      y1 == shape.y
      x2 == shape.x
      y2 == RAdd(shape.y, shape.height)
      x3 == RAdd(shape.x, shape.width)
      y3 == RAdd(shape.y, shape.height)
      pointInRect(px, py) ==
        /\ RLe(RectLeft(rect), px) /\ RLe(px, RectRight(rect))
        /\ RLe(RectTop(rect), py) /\ RLe(py, RectBottom(rect))
      rectCenterX == Half(RAdd(RectLeft(rect), RectRight(rect)))
      rectCenterY == Half(RAdd(RectTop(rect), RectBottom(rect)))
  IN  \/ pointInRect(x1, y1) \/ pointInRect(x2, y2) \/ pointInRect(x3, y3)
      \/ isPointInShape(rectCenterX, rectCenterY, shape)

TriangleIntersectsRect(shape, rect) ==
  LET x1 == RAdd(shape.x, Half(shape.width))
      y1 == shape.y
      x2 == shape.x
      y2 == RAdd(shape.y, shape.height)
      x3 == RAdd(shape.x, shape.width)
      y3 == RAdd(shape.y, shape.height)
      pointInRect(px, py) ==
        /\ RLe(RectLeft(rect), px) /\ RLe(px, RectRight(rect))
        /\ RLe(RectTop(rect), py) /\ RLe(py, RectBottom(rect))
      rectCenterX == Half(RAdd(RectLeft(rect), RectRight(rect)))
      rectCenterY == Half(RAdd(RectTop(rect), RectBottom(rect)))
  IN  \/ pointInRect(x1, y1) \/ pointInRect(x2, y2) \/ pointInRect(x3, y3)
      \/ isPointInShape(rectCenterX, rectCenterY, shape)
      \/ BoxIntersectsRect(RMin(x1, RMin(x2, x3)), RMax(x1, RMax(x2, x3)),
                           RMin(y1, RMin(y2, y3)), RMax(y1, RMax(y2, y3)), rect)

isShapeIntersectingRect(shape, rect) ==
  CASE shape.type \in {"text", "square"} ->
         BoxIntersectsRect(shape.x, RAdd(shape.x, shape.width),
                           shape.y, RAdd(shape.y, shape.height), rect)
    [] shape.type = "circle"   -> CircleIntersectsRect(shape, rect)
    [] shape.type = "triangle" -> TriangleIntersectsRect(shape, rect)
    [] OTHER                   -> FALSE

(***************************************************************************)
(* Inputs                                                                  *)
(***************************************************************************)
\* Events a specification may still take: presses (a mouse button or two
\* fingers going down), pointer moves and view operations (wheel, touch
\* move, fitToView, centerAtOrigin, setViewState).
MaxPresses == 3
MaxMoves == 3
MaxViewOps == 0
ViewMaxPresses == 1
ViewMaxMoves == 1
ViewMaxViewOps == 2
AllMaxPresses == 1
AllMaxMoves == 1
AllMaxViewOps == 1
WheelMaxPresses == 2
WheelMaxMoves == 1
WheelMaxViewOps == 1
NotifyMaxPresses == 2
NotifyMaxMoves == 2
NotifyMaxViewOps == 1
HitGridMax == 16
RectGridMax == 8
FitMaxOps == 2
LoadMaxOps == 2
RemovalMaxPresses == 2
RemovalMaxMoves == 2
RemovalMaxLoads == 1
InterleaveMaxPresses == 2
InterleaveMaxMoves == 2
AddMaxPresses == 1
AddMaxMoves == 1
AddMaxOps == 2
AddMaxNow == 1
StoreMaxOps == 2
StoreStartNow == 2
StoreMaxNow == 3
SaveMaxPresses == 1
SaveMaxMoves == 1
SaveMaxOps == 1

Pt(px, py) == [x |-> Num(px), y |-> Num(py)]

\* canvas.getBoundingClientRect(): the canvas starts right of the sidebar.
CanvasRect == [left |-> Num(4), top |-> Num(0), width |-> Num(24), height |-> Num(16)]

\* Client positions of the pointer: at view (0, 0, 1) over no shape, over "a"
\* alone, and over "a" and "b" where they overlap.
PointerPts == {Pt(4, 0), Pt(8, 4), Pt(11, 6)}

\* Two-finger touches <<touch1, touch2>>: 4, 10 and 6 pixels apart.
TouchPairs ==
  { <<Pt(10, 6), Pt(14, 6)>>, <<Pt(9, 2), Pt(15, 10)>>, <<Pt(12, 6), Pt(18, 6)>> }

\* Wheel deltas without the zoom modifier (two-finger scroll).
WheelPans == { [dx |-> Num(3), dy |-> Num(0)], [dx |-> Num(0), dy |-> Num(-2)] }

\* View states handed to the imperative setViewState.
StoredViewStates ==
  { [x |-> Num(0), y |-> Num(0), zoom |-> Num(5)],
    [x |-> Num(4), y |-> Num(2), zoom |-> Frac(1, 10)],
    [x |-> Num(12), y |-> Num(8), zoom |-> Num(8)] }

Shape(id, type, px, py, w, h) ==
  [id |-> id, type |-> type, x |-> Num(px), y |-> Num(py),
   width |-> Num(w), height |-> Num(h), color |-> "c-" \o id,
   content |-> IF type = "text" THEN "t-" \o id ELSE ""]

\* The shape list of the loaded canvas: a square, a circle that overlaps it
\* and is painted above it, and a triangle far below them.
InitialShapes ==
  << Shape("a", "square", 2, 2, 6, 6),
     Shape("b", "circle", 6, 2, 8, 8),
     Shape("c", "triangle", 0, 210, 30, 12) >>

ShapeIds == {"a", "b", "c"}

\* Hit-test inputs.  Boxes <<x, y, width, height>> with positive sides: a
\* square box, a wide one, a tall one, one with odd sides.
HitBoxes == { <<0, 0, 4, 4>>, <<1, -2, 6, 4>>, <<-1, 1, 4, 6>>, <<0, 0, 3, 5>> }

HitKinds == {"text", "square", "circle", "triangle"}

\* One shape of every kind on every box, and the documented square and
\* circle on the box (0, 0, 100, 100).
HitShapes ==
  {Shape("h", kind, b[1], b[2], b[3], b[4]) : kind \in HitKinds, b \in HitBoxes}
    \cup {Shape("h", "square", 0, 0, 100, 100), Shape("h", "circle", 0, 0, 100, 100)}

\* Rectangle-test inputs: one shape of every kind on every box, and the
\* documented shapes: the square (10, 10, 50, 50), the circle of radius 20
\* about (190, 190) and the square (300, 300, 50, 50).
RectShapes ==
  {Shape("h", kind, b[1], b[2], b[3], b[4]) : kind \in HitKinds, b \in HitBoxes}
    \cup {Shape("h", "square", 10, 10, 50, 50), Shape("h", "circle", 170, 170, 40, 40),
          Shape("h", "square", 300, 300, 50, 50)}

RectOf(sx, sy, ex, ey) ==
  [startX |-> Num(sx), startY |-> Num(sy), endX |-> Num(ex), endY |-> Num(ey)]

\* Selection rectangles with the corners in every order, some without area,
\* and the documented (0, 0)-(200, 200) from each of its corners.
RectCorners == {0 - 3, 0, 2, 5, RectGridMax}

SelectionRects ==
  {RectOf(sx, sy, ex, ey) : sx, sy, ex, ey \in RectCorners}
    \cup {RectOf(0, 0, 200, 200), RectOf(200, 200, 0, 0), RectOf(0, 200, 200, 0),
          RectOf(200, 0, 0, 200)}

\* Shapes without extent: triangles without area and circles of radius 0.
DegenerateBoxes == { <<0, 0, 0, 4>>, <<0, 0, 4, 0>>, <<1, -2, 0, 0>>, <<-1, 1, 6, 0>> }

DegenerateShapes ==
  {Shape("h", kind, b[1], b[2], b[3], b[4]) : kind \in {"triangle", "circle"},
                                              b \in DegenerateBoxes}

\* Inputs of the point test and the rectangle test together: a shape of every
\* kind on every box, the shapes without extent, and the points of the unit
\* grid on [0, 4] x [0, 4].
ConsistencyShapes ==
  {Shape("h", kind, b[1], b[2], b[3], b[4]) : kind \in HitKinds, b \in HitBoxes}
    \cup DegenerateShapes

ConsistencyPoints == {Pt(i, j) : i, j \in 0..4}

\* Rectangles about those points, with the corners in every order.
ConsistencyRects ==
  {RectOf(sx, sy, ex, ey) : sx, sy, ex, ey \in RectCorners \ {RectGridMax}}

\* View states with zoom > 0 for the coordinate conversions: zooms within
\* and at the ends of the wheel's range and one beyond it, offsets of either
\* sign.
CoordZooms == {Frac(1, 10), Frac(1, 2), Num(1), Frac(11, 10), Num(2), Num(5), Num(8)}

CoordOffsets == {<<Num(0), Num(0)>>, <<Num(12), Num(8)>>, <<Num(0 - 3), Frac(7, 2)>>}

CoordViewStates ==
  {[x |-> o[1], y |-> o[2], zoom |-> z] : o \in CoordOffsets, z \in CoordZooms}

\* Shape lists for fitToView: none, one shape, a circle on a box that is not
\* square, shapes that overlap, shapes far apart.
FitShapeLists ==
  { << >>,
    << Shape("a", "square", 2, 2, 6, 6) >>,
    << Shape("b", "circle", 6, 2, 8, 4) >>,
    << Shape("a", "square", 2, 2, 6, 6), Shape("b", "circle", 6, 2, 8, 8) >>,
    << Shape("t", "text", 0 - 40, 10, 20, 5), Shape("c", "triangle", 100, 0 - 30, 30, 12) >>,
    InitialShapes }

\* Sizes the canvas element can have when fitToView reads them: the small
\* canvas of the pointer specifications, a window, a wide strip.
FitViewports ==
  { CanvasRect,
    [left |-> Num(4), top |-> Num(0), width |-> Num(400), height |-> Num(300)],
    [left |-> Num(4), top |-> Num(0), width |-> Num(1000), height |-> Num(200)] }

\* canvas.viewState as JSON.parse returns it from storage: <<>> when the
\* canvas has none, else <<view>>.  The views are saved ones, two of them at
\* the ends of the wheel's range, the default {0, 0, 1}, and views nothing in the program would save: zoom 0, a negative
\* zoom, zooms outside the wheel's range, and a zoom that is null (<<>>).
StoredCanvasViews ==
  { <<>>,
    <<[x |-> Num(4), y |-> Num(2), zoom |-> Frac(1, 2)]>>,
    <<[x |-> Num(12), y |-> Num(8), zoom |-> Num(5)]>>,
    <<[x |-> Num(0 - 3), y |-> Frac(7, 2), zoom |-> Frac(1, 10)]>>,
    <<[x |-> Num(0), y |-> Num(0), zoom |-> Num(1)]>>,
    <<[x |-> Num(4), y |-> Num(2), zoom |-> Num(0)]>>,
    <<[x |-> Num(4), y |-> Num(2), zoom |-> Num(0 - 1)]>>,
    <<[x |-> Num(12), y |-> Num(8), zoom |-> Num(8)]>>,
    <<[x |-> Num(0), y |-> Num(0), zoom |-> Frac(1, 20)]>>,
    <<[x |-> Num(4), y |-> Num(2), zoom |-> << >>]>> }

\* canvas.elements.shapes of the stored canvases.
StoredShapeLists == { << >>, << Shape("a", "square", 2, 2, 6, 6) >>, InitialShapes }

\* Logical points: the half-integer grid around the small boxes, and points
\* in, on and outside the documented shapes.
HitPoints ==
  {[x |-> Frac(i, 2), y |-> Frac(j, 2)] : i, j \in (0 - 4)..HitGridMax}
    \cup {Pt(50, 50), Pt(150, 50), Pt(100, 100), Pt(20, 10), Pt(19, 10), Pt(100, 50)}

(***************************************************************************)
(* State                                                                   *)
(***************************************************************************)
VARIABLES
  shapes,                    \* App: useState<Shape[]>
  initialShapesPositionsRef, \* App: useRef<Map<id, {x, y}>>
  viewState,                 \* Canvas: {x, y, zoom}
  isPanning,
  lastPanPoint,
  selectedShapeId,           \* <<>> (null) or <<id>>
  selectedShapeIds,
  isDraggingShape,
  isDraggingMultipleShapes,
  dragOffset,
  initialShapesPositions,    \* Canvas: Map<id, {x, y}>
  dragStartMousePos,         \* <<>> (null) or <<[worldX, worldY]>>
  isSelecting,
  selectionRect,             \* <<>> (null) or <<[startX, startY, endX, endY]>>
  selectionStartPoint,
  isSpacePressed,
  canvasMode,
  lastTouchDistanceRef,      \* <<>> (null) or <<distance>>
  buttonsDown,               \* the mouse: buttons currently held
  touching,                  \* the touch screen: two fingers are down
  last,                      \* the latest pointer, touch or view event handled
  pressShapes,               \* the shape list at the latest primary press
  pressView,                 \* the pointer and the view at the latest mouse press
  timeoutId,                 \* Canvas: <<>> or <<the view state the pending timer will deliver>>
  notified,                  \* the latest onViewStateChange call and the calls since setViewState
  budget,                    \* events the run may still take
  now,                       \* Date.now()
  localStorage,              \* the keys octobase-canvases, octobase-current-canvas-id, octobase-canvas-state
  canvases,                  \* Sidebar: the list shown
  sortBy,                    \* Sidebar
  currentCanvas,             \* App: <<>> (null) or <<id of the CanvasData>>
  isInitialLoadRef,          \* App
  saveTimeoutRef,            \* App: <<>> or <<what the pending save timer has captured>>
  restoreTimers,             \* loadCanvas: canvas.viewState of each pending 100 ms timer, oldest first
  initialLoadTimers          \* loadCanvas: the number of pending 500 ms timers

vars ==
  << shapes, initialShapesPositionsRef, viewState, isPanning, lastPanPoint,
     selectedShapeId, selectedShapeIds, isDraggingShape,
     isDraggingMultipleShapes, dragOffset, initialShapesPositions,
     dragStartMousePos, isSelecting, selectionRect, selectionStartPoint,
     isSpacePressed, canvasMode, lastTouchDistanceRef, buttonsDown, touching,
     last, pressShapes, pressView, timeoutId, notified, budget, now,
     localStorage, canvases, sortBy, currentCanvas, isInitialLoadRef,
     saveTimeoutRef, restoreTimers, initialLoadTimers >>

\* The clock, the store and the Sidebar.
storeVars == << now, localStorage, canvases, sortBy >>

\* App: the canvas loaded and the timers of loadCanvas.
loadVars == << currentCanvas, isInitialLoadRef, restoreTimers, initialLoadTimers >>

sessionVars == << storeVars, loadVars, saveTimeoutRef >>

appVars == << shapes, initialShapesPositionsRef >>

gestureVars ==
  << isPanning, lastPanPoint, isDraggingShape, isDraggingMultipleShapes,
     dragOffset, initialShapesPositions, dragStartMousePos, isSelecting,
     selectionRect, selectionStartPoint >>

selectionVars == << selectedShapeId, selectedShapeIds >>

modeVars == << isSpacePressed, canvasMode >>

EmptyMap == [id \in {} |-> Pt(0, 0)]

\* The latest event: its kind, the client position it carried, the branch the
\* handler took and, for a primary press and the moves that follow it, the
\* selection set the press found.
EventWith(op, p, rule, sel) == [op |-> op, p |-> p, rule |-> rule, sel |-> sel]

Event(op, p, rule) == EventWith(op, p, rule, {})

\* View states the canvas shows once the stored canvas is restored: the
\* component's initial {0, 0, 1} and a saved zoomed-out view.
InitialViewStates ==
  { [x |-> Num(0), y |-> Num(0), zoom |-> Num(1)],
    [x |-> Num(0), y |-> Num(0), zoom |-> Frac(1, 2)] }

\* The viewState of a new canvas.
DefaultViewState == [x |-> Num(0), y |-> Num(0), zoom |-> Num(1)]

\* A canvas as the store keeps it.
CanvasData(id, name, createdAt, view, shapeList) ==
  [id |-> id, name |-> name, createdAt |-> createdAt, viewState |-> view,
   shapes |-> shapeList]

\* The App once it has loaded the only stored canvas, which holds the given
\* shape list and view: the flag that suppresses saves is still set and the
\* timer that will clear it is pending.
SessionLoaded(shapeList, view) ==
  /\ now = 0
  /\ localStorage =
       [canvases |-> << CanvasData("canvas-0-r1", "Ma première toile", 0, <<view>>, shapeList) >>,
        currentCanvasId |-> <<"canvas-0-r1">>,
        canvasState |-> <<>>]
  /\ canvases = localStorage.canvases
  /\ sortBy = "createdAt"
  /\ currentCanvas = <<"canvas-0-r1">>
  /\ isInitialLoadRef = TRUE
  /\ saveTimeoutRef = <<>>
  /\ restoreTimers = <<>>
  /\ initialLoadTimers = 1

InitWith(b) ==
  /\ shapes = InitialShapes
  /\ initialShapesPositionsRef = EmptyMap
  /\ viewState \in InitialViewStates
  /\ isPanning = FALSE
  /\ lastPanPoint = Pt(0, 0)
  /\ selectedShapeId = <<>>
  /\ selectedShapeIds = {}
  /\ isDraggingShape = FALSE
  /\ isDraggingMultipleShapes = FALSE
  /\ dragOffset = Pt(0, 0)
  /\ initialShapesPositions = EmptyMap
  /\ dragStartMousePos = <<>>
  /\ isSelecting = FALSE
  /\ selectionRect = <<>>
  /\ selectionStartPoint = Pt(0, 0)
  /\ isSpacePressed = FALSE
  /\ canvasMode = "pan"
  /\ lastTouchDistanceRef = <<>>
  /\ buttonsDown = {}
  /\ touching = FALSE
  /\ last = Event("init", Pt(0, 0), "")
  /\ pressShapes = InitialShapes
  /\ pressView = [p |-> Pt(0, 0), view |-> viewState]
  /\ timeoutId = <<viewState>>
  /\ notified = [view |-> <<>>, count |-> 0]
  /\ budget = b
  /\ SessionLoaded(shapes, viewState)

Init == InitWith([press |-> MaxPresses, move |-> MaxMoves, view |-> MaxViewOps])

InitView ==
  InitWith([press |-> ViewMaxPresses, move |-> ViewMaxMoves, view |-> ViewMaxViewOps])

InitAll ==
  InitWith([press |-> AllMaxPresses, move |-> AllMaxMoves, view |-> AllMaxViewOps])

InitWheel ==
  InitWith([press |-> WheelMaxPresses, move |-> WheelMaxMoves, view |-> WheelMaxViewOps])

\* A canvas holding one shape, at rest.
InitHit ==
  /\ \E shape \in HitShapes : shapes = <<shape>>
  /\ initialShapesPositionsRef = EmptyMap
  /\ viewState = [x |-> Num(0), y |-> Num(0), zoom |-> Num(1)]
  /\ isPanning = FALSE
  /\ lastPanPoint = Pt(0, 0)
  /\ selectedShapeId = <<>>
  /\ selectedShapeIds = {}
  /\ isDraggingShape = FALSE
  /\ isDraggingMultipleShapes = FALSE
  /\ dragOffset = Pt(0, 0)
  /\ initialShapesPositions = EmptyMap
  /\ dragStartMousePos = <<>>
  /\ isSelecting = FALSE
  /\ selectionRect = <<>>
  /\ selectionStartPoint = Pt(0, 0)
  /\ isSpacePressed = FALSE
  /\ canvasMode = "pan"
  /\ lastTouchDistanceRef = <<>>
  /\ buttonsDown = {}
  /\ touching = FALSE
  /\ last = Event("init", Pt(0, 0), "")
  /\ pressShapes = shapes
  /\ pressView = [p |-> Pt(0, 0), view |-> viewState]
  /\ timeoutId = <<viewState>>
  /\ notified = [view |-> <<>>, count |-> 0]
  /\ budget = [press |-> 0, move |-> 0, view |-> 0]
  /\ SessionLoaded(shapes, viewState)

\* InitHit with the shape drawn from the given set.
InitShapeFrom(shapeSet) ==
  /\ \E shape \in shapeSet : shapes = <<shape>>
  /\ initialShapesPositionsRef = EmptyMap
  /\ viewState = [x |-> Num(0), y |-> Num(0), zoom |-> Num(1)]
  /\ isPanning = FALSE
  /\ lastPanPoint = Pt(0, 0)
  /\ selectedShapeId = <<>>
  /\ selectedShapeIds = {}
  /\ isDraggingShape = FALSE
  /\ isDraggingMultipleShapes = FALSE
  /\ dragOffset = Pt(0, 0)
  /\ initialShapesPositions = EmptyMap
  /\ dragStartMousePos = <<>>
  /\ isSelecting = FALSE
  /\ selectionRect = <<>>
  /\ selectionStartPoint = Pt(0, 0)
  /\ isSpacePressed = FALSE
  /\ canvasMode = "pan"
  /\ lastTouchDistanceRef = <<>>
  /\ buttonsDown = {}
  /\ touching = FALSE
  /\ last = Event("init", Pt(0, 0), "")
  /\ pressShapes = shapes
  /\ pressView = [p |-> Pt(0, 0), view |-> viewState]
  /\ timeoutId = <<viewState>>
  /\ notified = [view |-> <<>>, count |-> 0]
  /\ budget = [press |-> 0, move |-> 0, view |-> 0]
  /\ SessionLoaded(shapes, viewState)

InitRect == InitShapeFrom(RectShapes)

\* The Canvas at rest with the given shape list, view state and budget.
CanvasAtRest(shapeList, view, b) ==
  /\ shapes = shapeList
  /\ initialShapesPositionsRef = EmptyMap
  /\ viewState = view
  /\ isPanning = FALSE
  /\ lastPanPoint = Pt(0, 0)
  /\ selectedShapeId = <<>>
  /\ selectedShapeIds = {}
  /\ isDraggingShape = FALSE
  /\ isDraggingMultipleShapes = FALSE
  /\ dragOffset = Pt(0, 0)
  /\ initialShapesPositions = EmptyMap
  /\ dragStartMousePos = <<>>
  /\ isSelecting = FALSE
  /\ selectionRect = <<>>
  /\ selectionStartPoint = Pt(0, 0)
  /\ isSpacePressed = FALSE
  /\ canvasMode = "pan"
  /\ lastTouchDistanceRef = <<>>
  /\ buttonsDown = {}
  /\ touching = FALSE
  /\ last = Event("init", Pt(0, 0), "")
  /\ pressShapes = shapeList
  /\ pressView = [p |-> Pt(0, 0), view |-> view]
  /\ timeoutId = <<view>>
  /\ notified = [view |-> <<>>, count |-> 0]
  /\ budget = b

InitState(shapeList, view, b) ==
  /\ CanvasAtRest(shapeList, view, b)
  /\ SessionLoaded(shapeList, view)

InitFit ==
  \E shapeList \in FitShapeLists, view \in CoordViewStates :
    InitState(shapeList, view, [press |-> 0, move |-> 0, view |-> FitMaxOps])

InitRemoval ==
  InitWith([press |-> RemovalMaxPresses, move |-> RemovalMaxMoves, view |-> RemovalMaxLoads])

InitLoad ==
  \E view \in InitialViewStates :
    InitState(InitialShapes, view, [press |-> 0, move |-> 0, view |-> LoadMaxOps])

InitCoords ==
  \E view \in CoordViewStates :
    InitState(InitialShapes, view, [press |-> 0, move |-> 0, view |-> 0])

InitDegenerate == InitShapeFrom(DegenerateShapes)

InitConsistency == InitShapeFrom(ConsistencyShapes)

InitNotify ==
  InitWith([press |-> NotifyMaxPresses, move |-> NotifyMaxMoves, view |-> NotifyMaxViewOps])

InitInterleave ==
  InitWith([press |-> InterleaveMaxPresses, move |-> InterleaveMaxMoves, view |-> 0])

InitAdd ==
  InitWith([press |-> AddMaxPresses, move |-> AddMaxMoves, view |-> AddMaxOps])

\* What localStorage can hold when the page is opened: nothing, a canvas
\* state in the old format only, and two canvases of an earlier visit of
\* which the second is the current one.
InitialStorages ==
  { [canvases |-> <<>>, currentCanvasId |-> <<>>, canvasState |-> <<>>],
    [canvases |-> <<>>, currentCanvasId |-> <<>>,
     canvasState |-> <<[viewState |-> <<[x |-> Num(4), y |-> Num(2), zoom |-> Frac(1, 2)]>>,
                        shapes |-> InitialShapes, lastSaved |-> <<0>>]>>],
    [canvases |-> <<>>, currentCanvasId |-> <<>>,
     canvasState |-> <<[viewState |-> <<[x |-> Num(4), y |-> Num(2), zoom |-> Frac(1, 2)]>>,
                        shapes |-> InitialShapes, lastSaved |-> <<>>]>>],
    [canvases |->
       << CanvasData("canvas-0-r1", "Zoo", 0,
                     <<[x |-> Num(4), y |-> Num(2), zoom |-> Frac(1, 2)]>>, InitialShapes),
          CanvasData("canvas-1-r2", "Atlas", 1,
                     <<[x |-> Num(12), y |-> Num(8), zoom |-> Num(5)]>>,
                     << Shape("a", "square", 2, 2, 6, 6) >>) >>,
     currentCanvasId |-> <<"canvas-1-r2">>,
     canvasState |-> <<>>] }

\* The page before its first commit, over the given storage.
PageOpened(storage, t, b) ==
  /\ CanvasAtRest(<<>>, DefaultViewState, b)
  /\ now = t
  /\ localStorage = storage
  /\ canvases = <<>>
  /\ sortBy = "createdAt"
  /\ currentCanvas = <<>>
  /\ isInitialLoadRef = TRUE
  /\ saveTimeoutRef = <<>>
  /\ restoreTimers = <<>>
  /\ initialLoadTimers = 0

InitStore ==
  \E storage \in InitialStorages :
    PageOpened(storage, StoreStartNow, [press |-> 0, move |-> 0, view |-> StoreMaxOps])

\* The page opened over the two canvases of an earlier visit.
InitSave ==
  \E storage \in {s \in InitialStorages : Len(s.canvases) = 2} :
    PageOpened(storage, StoreStartNow,
               [press |-> SaveMaxPresses, move |-> SaveMaxMoves, view |-> SaveMaxOps])

Spend(kind) == budget' = [budget EXCEPT ![kind] = @ - 1]

(***************************************************************************)
(* Canvas: the effect that notifies the App of the view state               *)
(***************************************************************************)
DebounceMs == 300

\* The effect after a render with a new viewState: the cleanup clears the
\* pending timer and a new one is started that will deliver this viewState.
ViewStateEffect ==
  /\ timeoutId' = <<viewState'>>
  /\ notified' = [notified EXCEPT !.count = 0]

\* The effect after a render with a new shape list: saveState and with it
\* handleViewStateChange are new functions, so the effect runs again with the
\* viewState it already had.
CallbackEffect ==
  /\ timeoutId' = <<viewState>>
  /\ UNCHANGED notified

\* App.saveState as the render with the given shape list has it: nothing
\* during the initial load or without a canvas, else the pending save timer
\* is replaced by one that holds the argument (<<>> when there is none), the
\* canvas and the shape list.
saveState(viewStateArg, shapeList) ==
  saveTimeoutRef' =
    IF isInitialLoadRef \/ currentCanvas = <<>>
    THEN saveTimeoutRef
    ELSE <<[canvasId |-> currentCanvas[1], viewState |-> viewStateArg,
            shapes |-> shapeList]>>

\* App's effect after a render with a new shape list: saveState().
ShapesEffect == saveState(<<>>, shapes')

\* The timer's callback, DebounceMs after the effect that started it when no
\* other effect ran in between: onViewStateChange(viewState).
TimerFires ==
  /\ timeoutId # <<>>
  /\ notified' = [view |-> timeoutId, count |-> notified.count + 1]
  /\ timeoutId' = <<>>
  /\ saveState(timeoutId, shapes)
  /\ UNCHANGED << storeVars, loadVars,
                  appVars, viewState, gestureVars, selectionVars, modeVars,
                 lastTouchDistanceRef, buttonsDown, touching, last, pressShapes,
                 pressView, budget >>

(***************************************************************************)
(* App: the shape list and the move callbacks                               *)
(***************************************************************************)
IdsOf(shapeList) == {shapeList[i].id : i \in DOMAIN shapeList}

\* The entry a Map built by forEach + set keeps for an id: the last one.
ShapeById(shapeList, id) ==
  LET is == {i \in DOMAIN shapeList : shapeList[i].id = id}
  IN  shapeList[CHOOSE i \in is : \A j \in is : j <= i]

\* PositionsOf without the filter on the ids: every shape of the list.
PositionsOfAll(shapeList, ids) ==
  [id \in IdsOf(shapeList) |->
     [x |-> ShapeById(shapeList, id).x, y |-> ShapeById(shapeList, id).y]]

PositionsOf(shapeList, ids) ==
  [id \in IdsOf(shapeList) \cap ids |->
     [x |-> ShapeById(shapeList, id).x, y |-> ShapeById(shapeList, id).y]]

\* handleShapeMove with newX stored in both coordinates.
handleShapeMoveXOnly(shapeList, shapeId, newX, newY) ==
  [i \in DOMAIN shapeList |->
     IF shapeList[i].id = shapeId
     THEN [shapeList[i] EXCEPT !.x = newX, !.y = newX]
     ELSE shapeList[i]]

\* handleShapeMove moving the first shape when the id is not in the list.
handleShapeMoveOrFirst(shapeList, shapeId, newX, newY) ==
  [i \in DOMAIN shapeList |->
     IF shapeList[i].id = shapeId \/ (i = 1 /\ shapeId \notin IdsOf(shapeList))
     THEN [shapeList[i] EXCEPT !.x = newX, !.y = newY]
     ELSE shapeList[i]]

\* handleShapeMove: the new shape list (the baseline ref is cleared by the
\* action that uses it).
handleShapeMove(shapeList, shapeId, newX, newY) ==
  [i \in DOMAIN shapeList |->
     IF shapeList[i].id = shapeId
     THEN [shapeList[i] EXCEPT !.x = newX, !.y = newY]
     ELSE shapeList[i]]

\* handleShapesMove, first half: the baseline is taken again from the current
\* list when the delta is below 0.1 in both axes or the ref is empty.
RestartsBaseline(ref, deltaX, deltaY) ==
  \/ (RLt(RAbs(deltaX), Frac(1, 10)) /\ RLt(RAbs(deltaY), Frac(1, 10)))
  \/ DOMAIN ref = {}

BaselineAfter(shapeList, ref, shapeIds, deltaX, deltaY) ==
  IF RestartsBaseline(ref, deltaX, deltaY)
  THEN PositionsOf(shapeList, shapeIds)
  ELSE ref

\* handleShapesMove applied to every shape of the list, listed or not.
handleShapesMoveAll(shapeList, ref, shapeIds, deltaX, deltaY) ==
  [i \in DOMAIN shapeList |->
     [shapeList[i] EXCEPT !.x = RAdd(@, deltaX), !.y = RAdd(@, deltaY)]]

\* handleShapesMove, second half: baseline + delta, or current + delta for
\* an id the baseline does not hold.
handleShapesMove(shapeList, ref, shapeIds, deltaX, deltaY) ==
  LET ref2 == BaselineAfter(shapeList, ref, shapeIds, deltaX, deltaY)
  IN  [i \in DOMAIN shapeList |->
         IF shapeList[i].id \in shapeIds
         THEN IF shapeList[i].id \in DOMAIN ref2
              THEN [shapeList[i] EXCEPT
                      !.x = RAdd(ref2[shapeList[i].id].x, deltaX),
                      !.y = RAdd(ref2[shapeList[i].id].y, deltaY)]
              ELSE [shapeList[i] EXCEPT
                      !.x = RAdd(@, deltaX), !.y = RAdd(@, deltaY)]
         ELSE shapeList[i]]

(***************************************************************************)
(* Canvas: primary and middle button press                                  *)
(***************************************************************************)
\* The topmost shape under the point: the last of the list that contains it
\* (0 when there is none).
\* ClickedShapeIndex scanning the list from its first shape.
ClickedShapeIndexFromFirst(worldX, worldY, shapeList) ==
  LET hits == {i \in DOMAIN shapeList : isPointInShape(worldX, worldY, shapeList[i])}
  IN  IF hits = {} THEN 0 ELSE CHOOSE i \in hits : \A j \in hits : i <= j

ClickedShapeIndex(worldX, worldY, shapeList) ==
  LET hits == {i \in DOMAIN shapeList : isPointInShape(worldX, worldY, shapeList[i])}
  IN  IF hits = {} THEN 0 ELSE CHOOSE i \in hits : \A j \in hits : j <= i

\* isSelectionMode read from the mode buttons alone.
isSelectionModeOfToggle == canvasMode = "select"

isSelectionMode == canvasMode = "select" \/ isSpacePressed

\* PressRule without its third branch: a press on an unselected shape in Pan
\* mode pans.
PressRuleSelectedOnly(clickedIdx, shapeList, selected, selectionMode) ==
  LET clicked == clickedIdx # 0
      clickedSelected == clicked /\ shapeList[clickedIdx].id \in selected
  IN  CASE clickedSelected /\ Cardinality(selected) > 1 -> "multi"
        [] clickedSelected /\ Cardinality(selected) = 1 -> "single"
        [] selectionMode                                -> "select"
        [] OTHER                                        -> "pan"

\* PressRule with a press on the empty canvas starting a rubber band in
\* either mode.
PressRuleBandOnEmpty(clickedIdx, shapeList, selected, selectionMode) ==
  LET clicked == clickedIdx # 0
      clickedSelected == clicked /\ shapeList[clickedIdx].id \in selected
  IN  CASE clickedSelected /\ Cardinality(selected) > 1 -> "multi"
        [] clickedSelected /\ Cardinality(selected) = 1 -> "single"
        [] clicked /\ ~selectionMode                    -> "new"
        [] OTHER                                        -> "select"

\* The branch handleMouseDown takes for the primary button.
PressRule(clickedIdx, shapeList, selected, selectionMode) ==
  LET clicked == clickedIdx # 0
      clickedSelected == clicked /\ shapeList[clickedIdx].id \in selected
  IN  CASE clickedSelected /\ Cardinality(selected) > 1 -> "multi"
        [] clickedSelected /\ Cardinality(selected) = 1 -> "single"
        [] clicked /\ ~selectionMode                    -> "new"
        [] selectionMode                                -> "select"
        [] OTHER                                        -> "pan"

\* DragOffsetFor measured from the middle of the shape.
DragOffsetFromCentre(world, shape) ==
  [x |-> RSub(world.x, RAdd(shape.x, Half(shape.width))),
   y |-> RSub(world.y, RAdd(shape.y, Half(shape.height)))]

DragOffsetFor(world, shape) ==
  [x |-> RSub(world.x, shape.x), y |-> RSub(world.y, shape.y)]

\* PointRect with the end corner left at the origin.
PointRectFromOrigin(world) ==
  [startX |-> world.x, startY |-> world.y, endX |-> Zero, endY |-> Zero]

PointRect(world) ==
  [startX |-> world.x, startY |-> world.y, endX |-> world.x, endY |-> world.y]

PrimaryPress(p) ==
  \E world \in {clientToWorld(p.x, p.y, CanvasRect, viewState)} :
  \E idx \in {ClickedShapeIndex(world.x, world.y, shapes)} :
  \E rule \in {PressRule(idx, shapes, selectedShapeIds, isSelectionMode)} :
      /\ last' = EventWith("mousedown", p, rule, selectedShapeIds)
      /\ pressShapes' = shapes
      /\ lastPanPoint' = p
      /\ CASE rule = "multi" ->
                /\ isDraggingMultipleShapes' = TRUE
                /\ dragStartMousePos' = <<[worldX |-> world.x, worldY |-> world.y]>>
                /\ initialShapesPositions' = PositionsOf(shapes, selectedShapeIds)
                /\ UNCHANGED << isPanning, isDraggingShape, dragOffset, isSelecting,
                               selectionRect, selectionStartPoint, selectionVars >>
           [] rule = "single" ->
                /\ isDraggingShape' = TRUE
                /\ dragOffset' = DragOffsetFor(world, shapes[idx])
                /\ UNCHANGED << isPanning, isDraggingMultipleShapes, dragStartMousePos,
                               initialShapesPositions, isSelecting, selectionRect,
                               selectionStartPoint, selectionVars >>
           [] rule = "new" ->
                /\ selectedShapeId' = <<shapes[idx].id>>
                /\ selectedShapeIds' = {shapes[idx].id}
                /\ isDraggingShape' = TRUE
                /\ dragOffset' = DragOffsetFor(world, shapes[idx])
                /\ UNCHANGED << isPanning, isDraggingMultipleShapes, dragStartMousePos,
                               initialShapesPositions, isSelecting, selectionRect,
                               selectionStartPoint >>
           [] rule = "select" ->
                /\ isSelecting' = TRUE
                /\ selectionStartPoint' = [x |-> world.x, y |-> world.y]
                /\ selectionRect' = <<PointRect(world)>>
                /\ UNCHANGED << isPanning, isDraggingShape, isDraggingMultipleShapes,
                               dragOffset, dragStartMousePos, initialShapesPositions,
                               selectionVars >>
           [] OTHER ->
                /\ selectedShapeId' = <<>>
                /\ selectedShapeIds' = {}
                /\ isPanning' = TRUE
                /\ UNCHANGED << isDraggingShape, isDraggingMultipleShapes, dragOffset,
                               dragStartMousePos, initialShapesPositions, isSelecting,
                               selectionRect, selectionStartPoint >>

MiddlePress(p) ==
  /\ last' = Event("mousedown", p, "middle")
  /\ isPanning' = TRUE
  /\ lastPanPoint' = p
  /\ UNCHANGED << pressShapes, isDraggingShape, isDraggingMultipleShapes, dragOffset,
                 dragStartMousePos, initialShapesPositions, isSelecting,
                 selectionRect, selectionStartPoint, selectionVars >>

HandleMouseDown(button, p) ==
  /\ button \notin buttonsDown
  /\ budget.press > 0
  /\ Spend("press")
  /\ buttonsDown' = buttonsDown \cup {button}
  /\ pressView' = [p |-> p, view |-> viewState]
  /\ IF button = 0 THEN PrimaryPress(p) ELSE MiddlePress(p)
  /\ UNCHANGED << sessionVars,
                  appVars, viewState, modeVars, lastTouchDistanceRef, touching,
                 timeoutId, notified >>

(***************************************************************************)
(* Canvas: pointer move and release                                         *)
(***************************************************************************)
\* The branch of handleMouseMove's if / else-if chain.
MoveRule ==
  CASE /\ isDraggingMultipleShapes
       /\ selectedShapeIds # {}
       /\ DOMAIN initialShapesPositions # {}
       /\ dragStartMousePos # <<>>                 -> "multi"
    [] isDraggingShape /\ selectedShapeId # <<>>  -> "single"
    [] isSelecting                                -> "select"
    [] isPanning                                  -> "pan"
    [] OTHER                                      -> "none"

\* IntersectingIds computed from the shape list of the latest press.
IntersectingIdsOfPressList(shapeList, rect) ==
  {pressShapes[i].id : i \in {j \in DOMAIN pressShapes : isShapeIntersectingRect(pressShapes[j], rect)}}

\* IntersectingIds added to the selection instead of replacing it.
IntersectingIdsExtending(shapeList, rect) ==
  selectedShapeIds \cup
    {shapeList[i].id : i \in {j \in DOMAIN shapeList : isShapeIntersectingRect(shapeList[j], rect)}}

\* IntersectingIds with a rectangle without area selecting nothing.
IntersectingIdsOfArea(shapeList, rect) ==
  IF rect.startX = rect.endX \/ rect.startY = rect.endY
  THEN {}
  ELSE {shapeList[i].id : i \in {j \in DOMAIN shapeList : isShapeIntersectingRect(shapeList[j], rect)}}

IntersectingIds(shapeList, rect) ==
  {shapeList[i].id : i \in {j \in DOMAIN shapeList : isShapeIntersectingRect(shapeList[j], rect)}}

\* panBy with the screen delta divided by the zoom.
panByLogical(vs, dx, dy) ==
  [vs EXCEPT !.x = RAdd(@, RDiv(dx, vs.zoom)), !.y = RAdd(@, RDiv(dy, vs.zoom))]

panBy(vs, dx, dy) == [vs EXCEPT !.x = RAdd(@, dx), !.y = RAdd(@, dy)]

HandleMouseMove(p) ==
  \E world \in {clientToWorld(p.x, p.y, CanvasRect, viewState)} :
  \E rule \in {MoveRule} :
      /\ isDraggingShape \/ isDraggingMultipleShapes \/ isPanning \/ isSelecting
      /\ budget.move > 0
      /\ Spend("move")
      /\ last' = EventWith("mousemove", p, rule, last.sel)
      /\ CASE rule = "multi" ->
                \E deltaX \in {RSub(world.x, dragStartMousePos[1].worldX)},
                   deltaY \in {RSub(world.y, dragStartMousePos[1].worldY)} :
                    /\ shapes' = handleShapesMove(shapes, initialShapesPositionsRef,
                                                  selectedShapeIds, deltaX, deltaY)
                    /\ initialShapesPositionsRef' =
                         BaselineAfter(shapes, initialShapesPositionsRef,
                                       selectedShapeIds, deltaX, deltaY)
                    /\ CallbackEffect
                    /\ UNCHANGED << viewState, gestureVars, selectionVars >>
           [] rule = "single" ->
                /\ shapes' = handleShapeMove(shapes, selectedShapeId[1],
                                             RSub(world.x, dragOffset.x),
                                             RSub(world.y, dragOffset.y))
                /\ initialShapesPositionsRef' = EmptyMap
                /\ CallbackEffect
                /\ UNCHANGED << viewState, gestureVars, selectionVars >>
           [] rule = "select" ->
                \E newRect \in {[startX |-> selectionStartPoint.x,
                                  startY |-> selectionStartPoint.y,
                                  endX |-> world.x, endY |-> world.y]} :
                    /\ selectionRect' = <<newRect>>
                    /\ selectedShapeIds' = IntersectingIds(shapes, newRect)
                    /\ UNCHANGED << appVars, viewState, isPanning, lastPanPoint,
                                   isDraggingShape, isDraggingMultipleShapes,
                                   dragOffset, initialShapesPositions,
                                   dragStartMousePos, isSelecting,
                                   selectionStartPoint, selectedShapeId,
                                   timeoutId, notified >>
           [] rule = "pan" ->
                /\ viewState' = panBy(viewState, RSub(p.x, lastPanPoint.x),
                                      RSub(p.y, lastPanPoint.y))
                /\ lastPanPoint' = p
                /\ ViewStateEffect
                /\ UNCHANGED << appVars, isPanning, isDraggingShape,
                               isDraggingMultipleShapes, dragOffset,
                               initialShapesPositions, dragStartMousePos,
                               isSelecting, selectionRect, selectionStartPoint,
                               selectionVars >>
           [] OTHER ->
                UNCHANGED << appVars, viewState, gestureVars, selectionVars,
                             timeoutId, notified >>
      /\ IF rule \in {"multi", "single"}
         THEN ShapesEffect
         ELSE UNCHANGED saveTimeoutRef
      /\ UNCHANGED << storeVars, loadVars, modeVars, lastTouchDistanceRef,
                     buttonsDown, touching, pressShapes, pressView >>

\* HandleMouseUp with the release of a rubber band leaving selectedShapeId
\* as it was.
HandleMouseUpKeepingId(button) ==
  /\ button \in buttonsDown
  /\ buttonsDown' = buttonsDown \ {button}
  /\ last' = Event("mouseup", Pt(0, 0), IF isSelecting /\ selectionRect # <<>>
                                        THEN "select" ELSE "")
  /\ IF isSelecting /\ selectionRect # <<>>
     THEN \E finalRect \in {[startX |-> selectionStartPoint.x,
                               startY |-> selectionStartPoint.y,
                               endX |-> selectionRect[1].endX,
                               endY |-> selectionRect[1].endY]} :
              /\ isSelecting' = FALSE
              /\ selectedShapeIds' = IntersectingIds(shapes, finalRect)
              /\ selectionRect' = <<>>
              /\ UNCHANGED selectedShapeId
     ELSE UNCHANGED << isSelecting, selectionRect, selectionVars >>
  /\ isPanning' = FALSE
  /\ isDraggingShape' = FALSE
  /\ isDraggingMultipleShapes' = FALSE
  /\ dragOffset' = Pt(0, 0)
  /\ initialShapesPositions' = EmptyMap
  /\ dragStartMousePos' = <<>>
  /\ UNCHANGED << sessionVars,
                  appVars, viewState, lastPanPoint, selectionStartPoint, modeVars,
                 lastTouchDistanceRef, touching, pressShapes, pressView, timeoutId,
                 notified, budget >>

\* handleMouseUp: the window's mouseup listener, whatever the button.
HandleMouseUp(button) ==
  /\ button \in buttonsDown
  /\ buttonsDown' = buttonsDown \ {button}
  /\ last' = Event("mouseup", Pt(0, 0), IF isSelecting /\ selectionRect # <<>>
                                        THEN "select" ELSE "")
  /\ IF isSelecting /\ selectionRect # <<>>
     THEN \E finalRect \in {[startX |-> selectionStartPoint.x,
                               startY |-> selectionStartPoint.y,
                               endX |-> selectionRect[1].endX,
                               endY |-> selectionRect[1].endY]} :
          \E selectedIds \in {IntersectingIds(shapes, finalRect)} :
              /\ isSelecting' = FALSE
              /\ selectedShapeIds' = selectedIds
              /\ selectedShapeId' =
                   IF Cardinality(selectedIds) = 1
                   THEN <<CHOOSE id \in selectedIds : TRUE>>
                   ELSE <<>>
              /\ selectionRect' = <<>>
     ELSE UNCHANGED << isSelecting, selectionRect, selectionVars >>
  /\ isPanning' = FALSE
  /\ isDraggingShape' = FALSE
  /\ isDraggingMultipleShapes' = FALSE
  /\ dragOffset' = Pt(0, 0)
  /\ initialShapesPositions' = EmptyMap
  /\ dragStartMousePos' = <<>>
  /\ UNCHANGED << sessionVars,
                  appVars, viewState, lastPanPoint, selectionStartPoint, modeVars,
                 lastTouchDistanceRef, touching, pressShapes, pressView, timeoutId,
                 notified, budget >>

(***************************************************************************)
(* Canvas: Space key and the mode buttons                                   *)
(***************************************************************************)
\* keydown of Space with e.repeat false.
HandleKeyDown ==
  /\ ~isSpacePressed
  /\ isSpacePressed' = TRUE
  /\ UNCHANGED << sessionVars, appVars, viewState, gestureVars, selectionVars, canvasMode,
                 lastTouchDistanceRef, buttonsDown, touching, last, pressShapes, pressView,
                 timeoutId, notified, budget >>

\* HandleKeyUp that also ends a rubber band in progress.
HandleKeyUpEndingBand ==
  /\ isSpacePressed
  /\ isSpacePressed' = FALSE
  /\ isSelecting' = FALSE
  /\ selectionRect' = <<>>
  /\ UNCHANGED << sessionVars,
                  appVars, viewState, isPanning, lastPanPoint, isDraggingShape,
                 isDraggingMultipleShapes, dragOffset, initialShapesPositions,
                 dragStartMousePos, selectionStartPoint, selectionVars, canvasMode,
                 lastTouchDistanceRef, buttonsDown, touching, last, pressShapes,
                 pressView, timeoutId, notified, budget >>

HandleKeyUp ==
  /\ isSpacePressed
  /\ isSpacePressed' = FALSE
  /\ UNCHANGED << sessionVars, appVars, viewState, gestureVars, selectionVars, canvasMode,
                 lastTouchDistanceRef, buttonsDown, touching, last, pressShapes, pressView,
                 timeoutId, notified, budget >>

\* The Pan / Selection buttons.
SetCanvasMode(mode) ==
  /\ mode # canvasMode
  /\ canvasMode' = mode
  /\ UNCHANGED << sessionVars,
                  appVars, viewState, gestureVars, selectionVars, isSpacePressed,
                 lastTouchDistanceRef, buttonsDown, touching, last, pressShapes, pressView,
                 timeoutId, notified, budget >>

(***************************************************************************)
(* Canvas: wheel, two-finger touch, fitToView, centerAtOrigin, setViewState *)
(***************************************************************************)
ZoomMin == Frac(1, 10)
ZoomMax == Num(5)

\* Math.max(0.1, Math.min(5, z))
ClampZoom(z) == RMax(ZoomMin, RMin(ZoomMax, z))

\* zoomAt with the offset computed from the requested zoom and only the stored
\* zoom clamped.
zoomAtClampedLate(prev, pivotX, pivotY, zoomFactor) ==
  [x |-> RSub(pivotX, RMul(RDiv(RSub(pivotX, prev.x), prev.zoom),
                           RMul(prev.zoom, zoomFactor))),
   y |-> RSub(pivotY, RMul(RDiv(RSub(pivotY, prev.y), prev.zoom),
                           RMul(prev.zoom, zoomFactor))),
   zoom |-> ClampZoom(RMul(prev.zoom, zoomFactor))]

\* The setViewState updater of handleWheel and handleGestureMove: the world
\* point under the pivot is computed from prev, then the offset is set so
\* that it stays under the pivot.
zoomAt(prev, pivotX, pivotY, zoomFactor) ==
  LET newZoom == ClampZoom(RMul(prev.zoom, zoomFactor))
      worldX  == RDiv(RSub(pivotX, prev.x), prev.zoom)
      worldY  == RDiv(RSub(pivotY, prev.y), prev.zoom)
  IN  [x |-> RSub(pivotX, RMul(worldX, newZoom)),
       y |-> RSub(pivotY, RMul(worldY, newZoom)),
       zoom |-> newZoom]

WheelFactor(deltaYPositive) == IF deltaYPositive THEN Frac(9, 10) ELSE Frac(11, 10)

viewOnly ==
  << sessionVars, appVars, gestureVars, selectionVars, modeVars, lastTouchDistanceRef,
     buttonsDown, touching, pressShapes, pressView >>

\* HandleWheelZoom that also ends a single-shape drag in progress.
HandleWheelZoomEndingDrag(p, deltaYPositive) ==
  /\ budget.view > 0
  /\ Spend("view")
  /\ viewState' = zoomAt(viewState, RSub(p.x, CanvasRect.left),
                         RSub(p.y, CanvasRect.top), WheelFactor(deltaYPositive))
  /\ last' = Event("wheelzoom", p, "")
  /\ isDraggingShape' = FALSE
  /\ dragOffset' = Pt(0, 0)
  /\ ViewStateEffect
  /\ UNCHANGED << sessionVars, appVars, isPanning, lastPanPoint, isDraggingMultipleShapes,
                 initialShapesPositions, dragStartMousePos, isSelecting,
                 selectionRect, selectionStartPoint, selectionVars, modeVars,
                 lastTouchDistanceRef, buttonsDown, touching, pressShapes,
                 pressView >>

\* handleWheel with ctrlKey or metaKey: zoom about the pointer.
HandleWheelZoom(p, deltaYPositive) ==
  /\ budget.view > 0
  /\ Spend("view")
  /\ viewState' = zoomAt(viewState, RSub(p.x, CanvasRect.left),
                         RSub(p.y, CanvasRect.top), WheelFactor(deltaYPositive))
  /\ last' = Event("wheelzoom", p, "")
  /\ ViewStateEffect
  /\ UNCHANGED viewOnly

\* handleWheel without the modifier: pan by (-deltaX, -deltaY).
HandleWheelPan(d) ==
  /\ budget.view > 0
  /\ Spend("view")
  /\ viewState' = panBy(viewState, RNeg(d.dx), RNeg(d.dy))
  /\ last' = Event("wheelpan", Pt(0, 0), "")
  /\ ViewStateEffect
  /\ UNCHANGED viewOnly

\* Math.hypot of whole-number differences whose sum of squares is a square.
Hypot(dx, dy) ==
  LET s == dx[1] * dx[1] + dy[1] * dy[1]
  IN  Num(CHOOSE r \in 0..(Abs(dx[1]) + Abs(dy[1])) : r * r = s)

TouchCenter(tp) ==
  [x |-> Half(RAdd(tp[1].x, tp[2].x)), y |-> Half(RAdd(tp[1].y, tp[2].y))]

TouchDistance(tp) == Hypot(RSub(tp[2].x, tp[1].x), RSub(tp[2].y, tp[1].y))

\* touchstart with two touches.
HandleGestureStart(tp) ==
  /\ ~touching
  /\ budget.press > 0
  /\ Spend("press")
  /\ touching' = TRUE
  /\ isPanning' = TRUE
  /\ lastPanPoint' = TouchCenter(tp)
  /\ lastTouchDistanceRef' = <<TouchDistance(tp)>>
  /\ last' = Event("touchstart", TouchCenter(tp), "")
  /\ UNCHANGED << sessionVars,
                  appVars, viewState, isDraggingShape, isDraggingMultipleShapes,
                 dragOffset, initialShapesPositions, dragStartMousePos, isSelecting,
                 selectionRect, selectionStartPoint, selectionVars, modeVars,
                 buttonsDown, pressShapes, pressView, timeoutId, notified >>

\* A pinch when the finger distance changed by more than 5 since the last
\* touchmove, a pan otherwise.
IsPinch(distance) ==
  /\ lastTouchDistanceRef # <<>>
  /\ RLt(Num(5), RAbs(RSub(distance, lastTouchDistanceRef[1])))

\* touchmove with two touches while isPanning.
HandleGestureMove(tp) ==
  \E center \in {TouchCenter(tp)}, distance \in {TouchDistance(tp)} :
      /\ touching
      /\ isPanning
      /\ budget.view > 0
      /\ Spend("view")
      /\ IF IsPinch(distance)
         THEN /\ viewState' = zoomAt(viewState, RSub(center.x, CanvasRect.left),
                                     RSub(center.y, CanvasRect.top),
                                     RDiv(distance, lastTouchDistanceRef[1]))
              /\ last' = Event("touchmove", center, "pinch")
         ELSE /\ viewState' = panBy(viewState, RSub(center.x, lastPanPoint.x),
                                    RSub(center.y, lastPanPoint.y))
              /\ last' = Event("touchmove", center, "pan")
      /\ lastTouchDistanceRef' = <<distance>>
      /\ lastPanPoint' = center
      /\ ViewStateEffect
      /\ UNCHANGED << sessionVars,
                      appVars, isPanning, isDraggingShape, isDraggingMultipleShapes,
                     dragOffset, initialShapesPositions, dragStartMousePos,
                     isSelecting, selectionRect, selectionStartPoint, selectionVars,
                     modeVars, buttonsDown, touching, pressShapes, pressView >>

HandleGestureEnd ==
  /\ touching
  /\ touching' = FALSE
  /\ isPanning' = FALSE
  /\ lastTouchDistanceRef' = <<>>
  /\ last' = Event("touchend", Pt(0, 0), "")
  /\ UNCHANGED << sessionVars, appVars, viewState, lastPanPoint, isDraggingShape,
                 isDraggingMultipleShapes, dragOffset, initialShapesPositions,
                 dragStartMousePos, isSelecting, selectionRect, selectionStartPoint,
                 selectionVars, modeVars, buttonsDown, pressShapes, pressView,
                 timeoutId, notified, budget >>

\* centerAtOrigin leaving world (0, 0) at the canvas's corner.
centerAtOriginCorner(canvasRect) == [x |-> Zero, y |-> Zero, zoom |-> Num(1)]

\* centerAtOrigin: world (0, 0) at the centre of the canvas, zoom 1.
centerAtOrigin(canvasRect) ==
  [x |-> Half(canvasRect.width), y |-> Half(canvasRect.height), zoom |-> Num(1)]

RMinOf(S) == CHOOSE m \in S : \A t \in S : RLe(m, t)
RMaxOf(S) == CHOOSE m \in S : \A t \in S : RLe(t, m)

\* The extent fitToView gives a shape: its box, or for a circle the square
\* of side 2 * radius about the box's centre.
ShapeRadius(shape) == Half(RMin(shape.width, shape.height))
ShapeMinX(shape) ==
  IF shape.type = "circle"
  THEN RSub(RAdd(shape.x, Half(shape.width)), ShapeRadius(shape)) ELSE shape.x
ShapeMinY(shape) ==
  IF shape.type = "circle"
  THEN RSub(RAdd(shape.y, Half(shape.height)), ShapeRadius(shape)) ELSE shape.y
ShapeMaxX(shape) ==
  IF shape.type = "circle"
  THEN RAdd(RAdd(shape.x, Half(shape.width)), ShapeRadius(shape))
  ELSE RAdd(shape.x, shape.width)
ShapeMaxY(shape) ==
  IF shape.type = "circle"
  THEN RAdd(RAdd(shape.y, Half(shape.height)), ShapeRadius(shape))
  ELSE RAdd(shape.y, shape.height)

FitPadding == 50
FitMaxZoom == 2

\* FitZoom without the limit of 2.
FitZoomUnlimited(boundsWidth, boundsHeight, canvasRect) ==
  RMin(RDiv(canvasRect.width, boundsWidth), RDiv(canvasRect.height, boundsHeight))

\* fitToView on a non-empty list: min(width ratio, height ratio, 2), centred.
FitZoom(boundsWidth, boundsHeight, canvasRect) ==
  RMin(RDiv(canvasRect.width, boundsWidth),
       RMin(RDiv(canvasRect.height, boundsHeight), Num(FitMaxZoom)))

fitToView(shapeList, canvasRect) ==
  IF Len(shapeList) = 0
  THEN centerAtOrigin(canvasRect)
  ELSE LET is   == DOMAIN shapeList
           minX == RSub(RMinOf({ShapeMinX(shapeList[i]) : i \in is}), Num(FitPadding))
           minY == RSub(RMinOf({ShapeMinY(shapeList[i]) : i \in is}), Num(FitPadding))
           maxX == RAdd(RMaxOf({ShapeMaxX(shapeList[i]) : i \in is}), Num(FitPadding))
           maxY == RAdd(RMaxOf({ShapeMaxY(shapeList[i]) : i \in is}), Num(FitPadding))
           centerX == Half(RAdd(minX, maxX))
           centerY == Half(RAdd(minY, maxY))
           newZoom == FitZoom(RSub(maxX, minX), RSub(maxY, minY), canvasRect)
       IN  [x |-> RSub(Half(canvasRect.width), RMul(centerX, newZoom)),
            y |-> RSub(Half(canvasRect.height), RMul(centerY, newZoom)),
            zoom |-> newZoom]

FitToView ==
  /\ budget.view > 0
  /\ Spend("view")
  /\ viewState' = fitToView(shapes, CanvasRect)
  /\ last' = Event("fit", Pt(0, 0), "")
  /\ ViewStateEffect
  /\ UNCHANGED viewOnly

\* FitToViewIn with the new offset added to the current one.
FitToViewInRelative(canvasRect) ==
  /\ budget.view > 0
  /\ Spend("view")
  /\ \E fitted \in {fitToView(shapes, canvasRect)} :
        viewState' = [fitted EXCEPT !.x = RAdd(@, viewState.x), !.y = RAdd(@, viewState.y)]
  /\ last' = Event("fit", canvasRect, "")
  /\ ViewStateEffect
  /\ UNCHANGED viewOnly

\* fitToView when the canvas element has the given bounding rectangle.
FitToViewIn(canvasRect) ==
  /\ budget.view > 0
  /\ Spend("view")
  /\ viewState' = fitToView(shapes, canvasRect)
  /\ last' = Event("fit", canvasRect, "")
  /\ ViewStateEffect
  /\ UNCHANGED viewOnly

CenterAtOrigin ==
  /\ budget.view > 0
  /\ Spend("view")
  /\ viewState' = centerAtOrigin(CanvasRect)
  /\ last' = Event("center", Pt(0, 0), "")
  /\ ViewStateEffect
  /\ UNCHANGED viewOnly

\* The imperative handle's setViewState: the given view state is installed.
InstalledViewState(newViewState) == newViewState

SetViewState(newViewState) ==
  /\ budget.view > 0
  /\ Spend("view")
  /\ viewState' = InstalledViewState(newViewState)
  /\ last' = Event("setview", Pt(0, 0), "")
  /\ ViewStateEffect
  /\ UNCHANGED viewOnly

\* App.loadCanvas and its delayed restoration of the view, for a stored
\* canvas with the given shape list and viewState: a canvas without viewState
\* or with the default {0, 0, 1} is centred on the origin, any other
\* viewState is handed to the imperative setViewState.  Saves are suppressed
\* from the call on, and the restoration starts the timer that will allow
\* them again.
LoadCanvas(storedShapes, storedView) ==
  /\ budget.view > 0
  /\ Spend("view")
  /\ shapes' = storedShapes
  /\ viewState' =
       IF storedView = <<>> \/ storedView = <<[x |-> Num(0), y |-> Num(0), zoom |-> Num(1)]>>
       THEN centerAtOrigin(CanvasRect)
       ELSE InstalledViewState(storedView[1])
  /\ last' = EventWith("load", Pt(0, 0), "", storedView)
  /\ ViewStateEffect
  /\ isInitialLoadRef' = TRUE
  /\ currentCanvas' = <<"canvas-0-stored">>
  /\ initialLoadTimers' = initialLoadTimers + 1
  /\ UNCHANGED << storeVars, restoreTimers, saveTimeoutRef,
                 initialShapesPositionsRef, gestureVars, selectionVars, modeVars,
                 lastTouchDistanceRef, buttonsDown, touching, pressShapes, pressView >>

(***************************************************************************)
(* canvasManager: the canvases kept in localStorage                        *)
(***************************************************************************)
\* Canvas names in the order of localeCompare(_, 'fr', base sensitivity).
NameOrder ==
  << "Atlas", "Ma première toile", "Toile 1", "Toile 2", "Toile 3", "Toile 4",
     "Toile 5", "Toile 6", "Toile 7", "Toile 8", "Toile 9", "Toile migrée", "Zoo" >>

NameRank(name) == CHOOSE i \in 1..Len(NameOrder) : NameOrder[i] = name

\* Names typed into the sidebar; <<>> is the empty field.
TypedNames == { <<>>, <<"Atlas">>, <<"Zoo">> }

\* Values of Math.random().toString(36).substr(2, 9).
RandomSuffixes == {"r1", "r2"}

getAllCanvases(ls) == ls.canvases

getCurrentCanvasId(ls) == ls.currentCanvasId

\* setCurrentCanvasId: the key is set, or removed when the id is null.
setCurrentCanvasId(ls, canvasId) == [ls EXCEPT !.currentCanvasId = canvasId]

\* findIndex(canvas => canvas.id === id), 0 when there is none.
CanvasIndex(list, id) ==
  IF \E i \in 1..Len(list) : list[i].id = id
  THEN CHOOSE i \in 1..Len(list) :
         /\ list[i].id = id
         /\ \A j \in 1..(i - 1) : list[j].id # id
  ELSE 0

getCanvasById(ls, id) ==
  IF CanvasIndex(getAllCanvases(ls), id) = 0 THEN <<>>
  ELSE << getAllCanvases(ls)[CanvasIndex(getAllCanvases(ls), id)] >>

getCurrentCanvas(ls) ==
  IF getCurrentCanvasId(ls) = <<>> THEN <<>>
  ELSE getCanvasById(ls, getCurrentCanvasId(ls)[1])

\* The canvas createCanvas builds when Date.now() reads t and Math.random()
\* gives the suffix; name is <<>> when none is given.
NewCanvas(ls, name, t, suffix) ==
  CanvasData("canvas-" \o ToString(t) \o "-" \o suffix,
             IF name # <<>> THEN name[1]
             ELSE "Toile " \o ToString(Len(getAllCanvases(ls)) + 1),
             t, <<DefaultViewState>>, <<>>)

\* createCanvas: the new canvas is pushed, the list saved and the new canvas
\* made current.
createCanvas(ls, name, t, suffix) ==
  setCurrentCanvasId(
    [ls EXCEPT !.canvases = Append(@, NewCanvas(ls, name, t, suffix))],
    << NewCanvas(ls, name, t, suffix).id >>)

\* updateCanvas with the viewState and the shapes of the updates, each <<>>
\* when absent; an unknown id changes nothing.
updateCanvas(ls, id, updates) ==
  IF CanvasIndex(getAllCanvases(ls), id) = 0 THEN ls
  ELSE [ls EXCEPT !.canvases[CanvasIndex(getAllCanvases(ls), id)] =
          [@ EXCEPT !.viewState = IF updates.viewState # <<>>
                                  THEN updates.viewState ELSE @,
                    !.shapes = IF updates.shapes # <<>>
                               THEN updates.shapes[1] ELSE @]]

\* deleteCanvas without a new current canvas.
deleteCanvasOnly(ls, id) ==
  [ls EXCEPT !.canvases = SelectSeq(@, LAMBDA canvas : canvas.id # id)]

\* deleteCanvas: the list is filtered and saved, and when the deleted canvas
\* was the current one the first remaining canvas, or none, becomes current.
deleteCanvas(ls, id) ==
  LET filtered == SelectSeq(getAllCanvases(ls), LAMBDA canvas : canvas.id # id)
  IN  IF getCurrentCanvasId(ls) = <<id>>
      THEN setCurrentCanvasId([ls EXCEPT !.canvases = filtered],
                              IF Len(filtered) > 0 THEN <<filtered[1].id>> ELSE <<>>)
      ELSE [ls EXCEPT !.canvases = filtered]

\* The comparator of sortCanvases is negative: a sorts before b.
SortsBefore(a, b, order) ==
  CASE order = "name" -> NameRank(a.name) < NameRank(b.name)
    [] order = "nameDesc" -> NameRank(b.name) < NameRank(a.name)
    [] OTHER -> a.createdAt < b.createdAt

\* Array.prototype.sort is stable: a canvas goes before the first one it
\* sorts before.
RECURSIVE SortedInsert(_, _, _)
SortedInsert(canvas, sorted, order) ==
  IF sorted = <<>> THEN <<canvas>>
  ELSE IF SortsBefore(canvas, Head(sorted), order) THEN <<canvas>> \o sorted
  ELSE <<Head(sorted)>> \o SortedInsert(canvas, Tail(sorted), order)

RECURSIVE sortCanvases(_, _)
sortCanvases(list, order) ==
  IF list = <<>> THEN <<>>
  ELSE SortedInsert(list[Len(list)], sortCanvases(SubSeq(list, 1, Len(list) - 1), order),
                    order)

\* migrateOldCanvasData when Date.now() reads t: data in the old format
\* becomes the only canvas, and the current one, if no canvas is stored yet.
migrateOldCanvasData(ls, t) ==
  IF ls.canvasState = <<>> \/ Len(getAllCanvases(ls)) > 0 THEN ls
  ELSE setCurrentCanvasId(
         [ls EXCEPT !.canvases =
            << CanvasData("canvas-" \o ToString(t) \o "-migrated", "Toile migrée",
                          IF ls.canvasState[1].lastSaved # <<>>
                          THEN ls.canvasState[1].lastSaved[1] ELSE t,
                          ls.canvasState[1].viewState,
                          ls.canvasState[1].shapes) >>],
         << "canvas-" \o ToString(t) \o "-migrated" >>)

(***************************************************************************)
(* App and Sidebar: loading, selecting, creating and deleting canvases     *)
(***************************************************************************)
\* State of the Canvas that no operation on canvases touches.
canvasOnly ==
  << initialShapesPositionsRef, viewState, gestureVars, selectionVars, modeVars,
     lastTouchDistanceRef, buttonsDown, touching, pressShapes, pressView,
     notified, now >>

\* App.loadCanvas: saves are suppressed, the canvas and its shapes are
\* installed and the timer that will restore its view is started.  The
\* render that follows runs the effects of a new shape list, of which
\* saveState returns at once.
loadCanvas(canvas) ==
  /\ isInitialLoadRef' = TRUE
  /\ currentCanvas' = <<canvas.id>>
  /\ shapes' = canvas.shapes
  /\ restoreTimers' = Append(restoreTimers, canvas.viewState)
  /\ CallbackEffect
  /\ UNCHANGED << saveTimeoutRef, initialLoadTimers >>

\* App.handleCanvasSelect on the store ls: the loaded canvas is saved with
\* the view and the shapes of this render, then the given canvas is loaded.
handleCanvasSelect(ls, canvas) ==
  /\ localStorage' =
       IF currentCanvas # <<>>
       THEN updateCanvas(ls, currentCanvas[1],
                         [viewState |-> <<viewState>>, shapes |-> <<shapes>>])
       ELSE ls
  /\ loadCanvas(canvas)

\* The first commit: the Sidebar's effect lists the stored canvases, then
\* the App's effect migrates old data and loads the current canvas, or a
\* new one when there is none.
AppMount(suffix) ==
  /\ currentCanvas = <<>>
  /\ canvases' = sortCanvases(getAllCanvases(localStorage), sortBy)
  /\ \E migrated \in {migrateOldCanvasData(localStorage, now)} :
       IF getCurrentCanvas(migrated) # <<>>
       THEN /\ localStorage' = migrated
            /\ loadCanvas(getCurrentCanvas(migrated)[1])
       ELSE /\ localStorage' = createCanvas(migrated, <<"Ma première toile">>, now, suffix)
            /\ loadCanvas(NewCanvas(migrated, <<"Ma première toile">>, now, suffix))
  /\ last' = Event("mount", Pt(0, 0), "")
  /\ UNCHANGED << sortBy, canvasOnly, budget >>

\* Sidebar.loadCanvases from the interval timer.
LoadCanvases ==
  /\ currentCanvas # <<>>
  /\ canvases # sortCanvases(getAllCanvases(localStorage), sortBy)
  /\ canvases' = sortCanvases(getAllCanvases(localStorage), sortBy)
  /\ UNCHANGED << localStorage, sortBy, loadVars, saveTimeoutRef, appVars,
                 canvasOnly, last, timeoutId, budget >>

\* A sort button of the sidebar; the effect reloads the list in the new order.
SetSortBy(order) ==
  /\ currentCanvas # <<>>
  /\ budget.view > 0
  /\ order # sortBy
  /\ Spend("view")
  /\ sortBy' = order
  /\ canvases' = sortCanvases(getAllCanvases(localStorage), order)
  /\ last' = Event("sort", Pt(0, 0), order)
  /\ UNCHANGED << localStorage, loadVars, saveTimeoutRef, appVars, canvasOnly,
                 timeoutId >>

\* Sidebar.handleSelectCanvas on the i-th canvas of the list shown.
HandleSelectCanvas(i) ==
  /\ currentCanvas # <<>>
  /\ budget.view > 0
  /\ i \in 1..Len(canvases)
  /\ Spend("view")
  /\ handleCanvasSelect(setCurrentCanvasId(localStorage, <<canvases[i].id>>), canvases[i])
  /\ last' = EventWith("select", Pt(0, 0), canvases[i].id,
                      [left |-> currentCanvas, view |-> viewState, shapes |-> shapes])
  /\ UNCHANGED << canvases, sortBy, canvasOnly >>

\* Sidebar.handleCreateCanvas with the trimmed name of the field.
HandleCreateCanvas(name, suffix) ==
  /\ currentCanvas # <<>>
  /\ budget.view > 0
  /\ Spend("view")
  /\ \E created \in {createCanvas(localStorage, name, now, suffix)} :
       /\ canvases' = sortCanvases(getAllCanvases(created), sortBy)
       /\ handleCanvasSelect(created, NewCanvas(localStorage, name, now, suffix))
  /\ last' = Event("create", Pt(0, 0), NewCanvas(localStorage, name, now, suffix).id)
  /\ UNCHANGED << sortBy, canvasOnly >>

\* Sidebar.handleDeleteCanvas, confirmed, on the i-th canvas of the list
\* shown.
HandleDeleteCanvas(i, suffix) ==
  /\ currentCanvas # <<>>
  /\ budget.view > 0
  /\ i \in 1..Len(canvases)
  /\ Spend("view")
  /\ \E deleted \in {deleteCanvas(localStorage, canvases[i].id)} :
       /\ canvases' = sortCanvases(getAllCanvases(deleted), sortBy)
       /\ IF Len(getAllCanvases(deleted)) > 0
          THEN handleCanvasSelect(deleted, sortCanvases(getAllCanvases(deleted), sortBy)[1])
          ELSE handleCanvasSelect(createCanvas(deleted, <<>>, now, suffix),
                                  NewCanvas(deleted, <<>>, now, suffix))
  /\ last' = EventWith("delete", Pt(0, 0), canvases[i].id,
                      [stored |-> getCurrentCanvasId(localStorage),
                       loaded |-> currentCanvas])
  /\ UNCHANGED << sortBy, canvasOnly >>

\* The 100 ms timer of the oldest loadCanvas still waiting: the stored view
\* is restored, the default {0, 0, 1} and a missing one by centring on the
\* origin, and the timer that will allow saves again is started.
RestoreTimerFires ==
  /\ restoreTimers # <<>>
  /\ \E storedView \in {Head(restoreTimers)} :
       viewState' =
         IF storedView = <<>> \/ storedView = <<DefaultViewState>>
         THEN centerAtOrigin(CanvasRect)
         ELSE InstalledViewState(storedView[1])
  /\ ViewStateEffect
  /\ restoreTimers' = Tail(restoreTimers)
  /\ initialLoadTimers' = initialLoadTimers + 1
  /\ UNCHANGED << storeVars, currentCanvas, isInitialLoadRef, saveTimeoutRef,
                 appVars, gestureVars, selectionVars, modeVars,
                 lastTouchDistanceRef, buttonsDown, touching, last, pressShapes,
                 pressView, budget >>

\* The 500 ms timer started by a restoration: saves are allowed again.
InitialLoadTimerFires ==
  /\ initialLoadTimers > 0
  /\ initialLoadTimers' = initialLoadTimers - 1
  /\ isInitialLoadRef' = FALSE
  /\ UNCHANGED << storeVars, currentCanvas, restoreTimers, saveTimeoutRef,
                 appVars, viewState, gestureVars, selectionVars, modeVars,
                 lastTouchDistanceRef, buttonsDown, touching, last, pressShapes,
                 pressView, timeoutId, notified, budget >>

\* The 500 ms timer of saveState: the canvas and the shapes it was started
\* with are written, with the view it was started with or, without one, the
\* view the Canvas has now.
SaveTimerFires ==
  /\ saveTimeoutRef # <<>>
  /\ localStorage' =
       updateCanvas(localStorage, saveTimeoutRef[1].canvasId,
                    [viewState |-> IF saveTimeoutRef[1].viewState # <<>>
                                   THEN saveTimeoutRef[1].viewState
                                   ELSE <<viewState>>,
                     shapes |-> <<saveTimeoutRef[1].shapes>>])
  /\ saveTimeoutRef' = <<>>
  /\ UNCHANGED << now, canvases, sortBy, loadVars, appVars, viewState,
                 gestureVars, selectionVars, modeVars, lastTouchDistanceRef,
                 buttonsDown, touching, last, pressShapes, pressView, timeoutId,
                 notified, budget >>

(***************************************************************************)
(* App: adding shapes                                                      *)
(***************************************************************************)
\* Hues Math.random() * 360 can give.
Hues == {0, 120}

\* Positions handed to addShape by the context menu; <<>> is the shape
\* menu, which hands none.
AddPositions == { <<>>, <<Pt(-50, -50)>> }

\* Canvas.getCenterWorldCoords: the logical point at the centre of the canvas.
getCenterWorldCoords(canvasRect, vs) ==
  screenToWorld(Half(canvasRect.width), Half(canvasRect.height), vs)

\* The shape addShape builds when Date.now() reads t.
NewShape(type, position, hue, t) ==
  LET centerCoords == getCenterWorldCoords(CanvasRect, viewState)
      shapeX == IF position = <<>> THEN RSub(centerCoords.x, Num(50)) ELSE position[1].x
      shapeY == IF position = <<>> THEN RSub(centerCoords.y, Num(50)) ELSE position[1].y
  IN  [id |-> ToString(t), type |-> type, x |-> shapeX, y |-> shapeY,
       width |-> IF type = "text" THEN Num(300) ELSE Num(100),
       height |-> IF type = "text" THEN Num(150) ELSE Num(100),
       color |-> IF type = "text" THEN "#ffffff"
                 ELSE "hsl(" \o ToString(hue) \o ", 70%, 50%)",
       content |-> IF type = "text" THEN "# Titre" ELSE ""]

\* App.addShape from an item of the shape menu or of the context menu, with
\* the effects of the render that follows.
AddShape(type, position, hue) ==
  /\ budget.view > 0
  /\ Spend("view")
  /\ shapes' = Append(shapes, NewShape(type, position, hue, now))
  /\ last' = Event("add", Pt(0, 0), type)
  /\ CallbackEffect
  /\ ShapesEffect
  /\ UNCHANGED << storeVars, loadVars, initialShapesPositionsRef, viewState,
                 gestureVars, selectionVars, modeVars, lastTouchDistanceRef,
                 buttonsDown, touching, pressShapes, pressView >>

\* The clock read by Date.now() moves on by a millisecond.
ClockAdvances(maxNow) ==
  /\ now < maxNow
  /\ now' = now + 1
  /\ UNCHANGED << localStorage, canvases, sortBy, loadVars, saveTimeoutRef,
                 appVars, viewState, gestureVars, selectionVars, modeVars,
                 lastTouchDistanceRef, buttonsDown, touching, last,
                 pressShapes, pressView, timeoutId, notified, budget >>

(***************************************************************************)
(* Specifications                                                          *)
(***************************************************************************)
KeyboardAndMode ==
  \/ HandleKeyDown
  \/ HandleKeyUp
  \/ \E mode \in {"pan", "select"} : SetCanvasMode(mode)

ViewOperation ==
  \/ \E p \in PointerPts, deltaYPositive \in BOOLEAN : HandleWheelZoom(p, deltaYPositive)
  \/ \E d \in WheelPans : HandleWheelPan(d)
  \/ \E tp \in TouchPairs : HandleGestureStart(tp)
  \/ \E tp \in TouchPairs : HandleGestureMove(tp)
  \/ HandleGestureEnd
  \/ FitToView
  \/ CenterAtOrigin
  \/ \E v \in StoredViewStates : SetViewState(v)

\* Primary-button gestures with the Space key and the mode buttons.
NextPointer ==
  \/ \E p \in PointerPts : HandleMouseDown(0, p)
  \/ \E p \in PointerPts : HandleMouseMove(p)
  \/ HandleMouseUp(0)
  \/ KeyboardAndMode

\* View operations and middle-button panning.
NextView ==
  \/ \E p \in PointerPts : HandleMouseDown(1, p)
  \/ \E p \in PointerPts : HandleMouseMove(p)
  \/ HandleMouseUp(1)
  \/ ViewOperation

\* Every event.
Next ==
  \/ \E button \in {0, 1}, p \in PointerPts : HandleMouseDown(button, p)
  \/ \E p \in PointerPts : HandleMouseMove(p)
  \/ \E button \in {0, 1} : HandleMouseUp(button)
  \/ KeyboardAndMode
  \/ ViewOperation
  \/ TimerFires

\* Primary-button gestures with wheel zooms in between.
NextWheel ==
  \/ NextPointer
  \/ \E p \in PointerPts, deltaYPositive \in BOOLEAN : HandleWheelZoom(p, deltaYPositive)

\* isPointInShape applied, once in a run, to a logical point and the canvas's
\* first shape; the answer and the quotients computed on the way are kept in
\* the event record.
HitTest(world) ==
  /\ last.op = "init"
  /\ last' = EventWith("hittest", world,
                       IF isPointInShape(world.x, world.y, shapes[1])
                       THEN "inside" ELSE "outside",
                       QuotientsOf(shapes[1]))
  /\ UNCHANGED << sessionVars, appVars, viewState, gestureVars, selectionVars, modeVars,
                 lastTouchDistanceRef, buttonsDown, touching, pressShapes,
                 pressView, timeoutId, notified, budget >>

NextHit == \E world \in HitPoints : HitTest(world)

\* isShapeIntersectingRect applied to the canvas's first shape and a selection
\* rectangle; the rectangle and the answer are kept in the event record.
RectTest(rect) ==
  /\ last.op = "init"
  /\ last' = Event("recttest", rect,
                   IF isShapeIntersectingRect(shapes[1], rect)
                   THEN "selected" ELSE "missed")
  /\ UNCHANGED << sessionVars, appVars, viewState, gestureVars, selectionVars, modeVars,
                 lastTouchDistanceRef, buttonsDown, touching, pressShapes,
                 pressView, timeoutId, notified, budget >>

NextRect == \E rect \in SelectionRects : RectTest(rect)

\* A point taken as a screen point to the logical plane and back, and taken
\* as a logical point to the screen and back, under the current view state;
\* both results are kept in the event record.
RoundTrip(p) ==
  /\ last.op = "init"
  /\ \E world \in {screenToWorld(p.x, p.y, viewState)},
        screen \in {worldToScreen(p.x, p.y, viewState)} :
        last' = EventWith("roundtrip", p, "",
                          [screenBack |-> worldToScreen(world.x, world.y, viewState),
                           worldBack |-> screenToWorld(screen.x, screen.y, viewState)])
  /\ UNCHANGED << sessionVars, appVars, viewState, gestureVars, selectionVars, modeVars,
                 lastTouchDistanceRef, buttonsDown, touching, pressShapes,
                 pressView, timeoutId, notified, budget >>

NextCoords == \E p \in HitPoints : RoundTrip(p)

\* isPointInShape at a logical point and isShapeIntersectingRect with a
\* rectangle that holds the point, both applied to the canvas's first shape;
\* the two answers are kept in the event record.
PointAndRectTest(world, rect) ==
  /\ last.op = "init"
  /\ RLe(RectLeft(rect), world.x) /\ RLe(world.x, RectRight(rect))
  /\ RLe(RectTop(rect), world.y) /\ RLe(world.y, RectBottom(rect))
  /\ last' = EventWith("pointrect", world,
                       IF isPointInShape(world.x, world.y, shapes[1])
                       THEN "inside" ELSE "outside",
                       [rect |-> rect,
                        selected |-> isShapeIntersectingRect(shapes[1], rect)])
  /\ UNCHANGED << sessionVars, appVars, viewState, gestureVars, selectionVars, modeVars,
                 lastTouchDistanceRef, buttonsDown, touching, pressShapes,
                 pressView, timeoutId, notified, budget >>

NextConsistency ==
  \E world \in ConsistencyPoints :
    \E rect \in ConsistencyRects \cup {PointRect(world)} : PointAndRectTest(world, rect)

\* Primary-button gestures during which another canvas, without a stored
\* view, can be loaded: the shape list is replaced while the Canvas keeps its
\* selection and its gesture.
NextRemoval ==
  \/ NextPointer
  \/ \E storedShapes \in StoredShapeLists : LoadCanvas(storedShapes, << >>)

NextLoad ==
  \E storedShapes \in StoredShapeLists, storedView \in StoredCanvasViews :
    LoadCanvas(storedShapes, storedView)

NextFit == \E canvasRect \in FitViewports : FitToViewIn(canvasRect)

\* Primary-button gestures and wheel zooms with the notification timer
\* firing whenever it is pending.
NextNotify ==
  \/ \E p \in PointerPts : HandleMouseDown(0, p)
  \/ \E p \in PointerPts : HandleMouseMove(p)
  \/ HandleMouseUp(0)
  \/ \E p \in PointerPts, deltaYPositive \in BOOLEAN : HandleWheelZoom(p, deltaYPositive)
  \/ TimerFires

\* The primary button, the middle button and two-finger touches in any
\* order, with the Space key and the mode buttons.
NextInterleave ==
  \/ \E button \in {0, 1}, p \in PointerPts : HandleMouseDown(button, p)
  \/ \E p \in PointerPts : HandleMouseMove(p)
  \/ \E button \in {0, 1} : HandleMouseUp(button)
  \/ \E tp \in TouchPairs : HandleGestureStart(tp)
  \/ HandleGestureEnd
  \/ KeyboardAndMode

\* Shapes added from the menus between primary-button gestures, while the
\* clock runs.
NextAdd ==
  \/ \E type \in {"square", "circle", "triangle", "text"},
        position \in AddPositions, hue \in Hues : AddShape(type, position, hue)
  \/ ClockAdvances(AddMaxNow)
  \/ \E p \in PointerPts : HandleMouseDown(0, p)
  \/ \E p \in PointerPts : HandleMouseMove(p)
  \/ HandleMouseUp(0)

\* The canvases of the sidebar created, selected, deleted and sorted, with
\* the timers these operations start.
NextStore ==
  \/ \E suffix \in RandomSuffixes : AppMount(suffix)
  \/ \E name \in TypedNames, suffix \in RandomSuffixes : HandleCreateCanvas(name, suffix)
  \/ \E i \in 1..Len(canvases) : HandleSelectCanvas(i)
  \/ \E i \in 1..Len(canvases), suffix \in RandomSuffixes : HandleDeleteCanvas(i, suffix)
  \/ \E order \in {"name", "nameDesc", "createdAt"} : SetSortBy(order)
  \/ LoadCanvases
  \/ RestoreTimerFires
  \/ InitialLoadTimerFires
  \/ ClockAdvances(StoreMaxNow)

\* What the user does to the loaded canvas: drags of shapes, pans, a shape
\* added from the menu.
Modification ==
  \/ \E p \in PointerPts : HandleMouseDown(0, p)
  \/ \E p \in PointerPts : HandleMouseMove(p)
  \/ HandleMouseUp(0)
  \/ AddShape("square", <<>>, 0)

\* Modifications of the loaded canvas and selections of another one, with
\* every timer of the App and of the Canvas.
NextSave ==
  \/ \E suffix \in RandomSuffixes : AppMount(suffix)
  \/ currentCanvas # <<>> /\ Modification
  \/ \E i \in 1..Len(canvases) : HandleSelectCanvas(i)
  \/ LoadCanvases
  \/ RestoreTimerFires
  \/ InitialLoadTimerFires
  \/ currentCanvas # <<>> /\ TimerFires
  \/ SaveTimerFires

\* The interaction machine under primary-button gestures.
Spec == Init /\ [][NextPointer]_vars

\* The view under wheel, touch, middle-button and imperative operations.
SpecView == InitView /\ [][NextView]_vars

\* Primary-button gestures with a wheel zoom at any point of them.
SpecWheel == InitWheel /\ [][NextWheel]_vars

\* The view-state notifications under shape drags and wheel zooms.
SpecNotify == InitNotify /\ [][NextNotify]_vars

\* isPointInShape over shapes of every kind and points in, on and around them.
SpecHit == InitHit /\ [][NextHit]_vars

\* isShapeIntersectingRect over shapes of every kind and rectangles around them.
SpecRect == InitRect /\ [][NextRect]_vars

\* isPointInShape over shapes without extent.
SpecDegenerate == InitDegenerate /\ [][NextHit]_vars

\* isPointInShape and isShapeIntersectingRect on the same shape.
SpecConsistency == InitConsistency /\ [][NextConsistency]_vars

\* The coordinate conversions over view states with zoom > 0.
SpecCoords == InitCoords /\ [][NextCoords]_vars

\* fitToView over shape lists, starting views and canvas sizes.
SpecFit == InitFit /\ [][NextFit]_vars

\* Canvases loaded from storage, one after the other.
SpecLoad == InitLoad /\ [][NextLoad]_vars

\* Drags whose shapes can leave the shape list.
SpecRemoval == InitRemoval /\ [][NextRemoval]_vars

\* Mouse buttons and touches pressed and released in any order.
SpecInterleave == InitInterleave /\ [][NextInterleave]_vars

\* Shapes added and dragged.
SpecAdd == InitAdd /\ [][NextAdd]_vars

\* The canvas store under the sidebar's operations.
SpecStore == InitStore /\ [][NextStore]_vars

\* Saving under modifications and canvas switches.
SpecSave == InitSave /\ [][NextSave]_vars

\* The same, with every timer that was started and not cleared firing in
\* the end, and the mount effect running.
SpecSaveLive ==
  /\ SpecSave
  /\ WF_vars(\E suffix \in RandomSuffixes : AppMount(suffix))
  /\ WF_vars(RestoreTimerFires)
  /\ WF_vars(InitialLoadTimerFires)
  /\ WF_vars(currentCanvas # <<>> /\ TimerFires)
  /\ WF_vars(SaveTimerFires)

\* All events interleaved, a few of each.
SpecAll == InitAll /\ [][Next]_vars

(***************************************************************************)
(* Properties                                                              *)
(***************************************************************************)
\* The pointer of the latest event in logical coordinates, under the view of
\* the state it is read in.
LastWorld == clientToWorld(last.p.x, last.p.y, CanvasRect, viewState)

\* The latest event was a pointer move handled by the multi-drag branch.
AfterMultiMove == last.op = "mousemove" /\ last.rule = "multi"

\* The latest event was the primary press that started a multi-drag gesture.
AfterMultiPress == last.op = "mousedown" /\ last.rule = "multi"

\* C1: the first pointer move of every multi-drag gesture, the first gesture
\* or one that follows an earlier released multi-drag, puts each dragged shape
\* at its position at that gesture's press plus
\* (toLogical(pointer) - toLogical(press pointer)): no earlier gesture's
\* baseline is left to move it from.
C1_BaselineOfThisGesture ==
  [][ (AfterMultiPress /\ AfterMultiMove') =>
        \A event \in {last'}, vs \in {viewState'} :
        \A world \in {clientToWorld(event.p.x, event.p.y, CanvasRect, vs)} :
        \A deltaX \in {RSub(world.x, dragStartMousePos[1].worldX)},
           deltaY \in {RSub(world.y, dragStartMousePos[1].worldY)} :
        \A i \in DOMAIN shapes :
          shapes[i].id \in selectedShapeIds =>
            /\ shapes'[i].x = RAdd(shapes[i].x, deltaX)
            /\ shapes'[i].y = RAdd(shapes[i].y, deltaY) ]_vars

\* C2: a move of a multi-drag gesture that follows another move of the same
\* gesture leaves the shape list as the single update with the latest delta
\* would, applied to the list the gesture started from: earlier deltas of the
\* gesture, a zero one included, leave no trace.
C2_OnlyLastDeltaMatters ==
  [][ (AfterMultiMove /\ AfterMultiMove' /\ budget'.move = budget.move - 1) =>
        \A event \in {last'}, vs \in {viewState'} :
        \A world \in {clientToWorld(event.p.x, event.p.y, CanvasRect, vs)} :
        \A deltaX \in {RSub(world.x, dragStartMousePos[1].worldX)},
           deltaY \in {RSub(world.y, dragStartMousePos[1].worldY)} :
          shapes' = handleShapesMove(pressShapes, EmptyMap, selectedShapeIds,
                                     deltaX, deltaY) ]_vars

\* C3: in every reachable state 0.1 <= zoom <= 5.
C3_ZoomInRange ==
  /\ RLe(ZoomMin, viewState.zoom)
  /\ RLe(viewState.zoom, ZoomMax)

\* A step that zooms about a pivot: a wheel event with the zoom modifier, or
\* a two-finger move handled as a pinch.
ZoomStep ==
  /\ budget'.view = budget.view - 1
  /\ \/ last'.op = "wheelzoom"
     \/ last'.op = "touchmove" /\ last'.rule = "pinch"

\* C4: a wheel zoom or a pinch zoom leaves the logical point under its pivot
\* where it was, whatever the view state before it (one left by an earlier
\* zoom included) and also when the new zoom is clamped at 0.1 or 5.
C4_PivotStaysPut ==
  [][ ZoomStep =>
        \A event \in {last'}, after \in {viewState'} :
        \A pivotX \in {RSub(event.p.x, CanvasRect.left)},
           pivotY \in {RSub(event.p.y, CanvasRect.top)} :
          screenToWorld(pivotX, pivotY, after) =
            screenToWorld(pivotX, pivotY, viewState) ]_vars

\* C4 happens: a wheel zoom came after another view operation and was clamped
\* at the upper limit.
C4_Witness ==
  /\ last.op = "wheelzoom"
  /\ budget.view = 0
  /\ viewState.zoom = ZoomMax

\* A step in which a held mouse button is released.
ReleaseStep == buttonsDown' # buttonsDown /\ buttonsDown' \subseteq buttonsDown

\* C5: a release leaves no gesture state behind: the four flags are false,
\* the rectangle, the press position and the offset are reset, and the drag
\* baseline is empty, in the canvas and in the application that moves the
\* shapes from it.
C5_ReleaseClearsGestureState ==
  [][ ReleaseStep =>
        /\ ~isPanning' /\ ~isDraggingShape'
        /\ ~isDraggingMultipleShapes' /\ ~isSelecting'
        /\ initialShapesPositions' = EmptyMap
        /\ dragStartMousePos' = <<>>
        /\ dragOffset' = Pt(0, 0)
        /\ selectionRect' = <<>>
        /\ initialShapesPositionsRef' = EmptyMap ]_vars

\* A step in which the primary button goes down.
PrimaryPressStep == 0 \notin buttonsDown /\ 0 \in buttonsDown'

\* The gesture flags after a step say exactly the given state.
EntersOnly(multi, single, panning, selecting) ==
  /\ isDraggingMultipleShapes' = multi
  /\ isDraggingShape' = single
  /\ isPanning' = panning
  /\ isSelecting' = selecting

\* C6: a primary press whose topmost hit shape is selected, the selection
\* holding more than one id, enters DraggingMultiple in either mode, leaves
\* the selection as it was, records as baseline exactly the selected shapes
\* of the list at their current (x, y), and records toLogical(pointer).
C6_PressRule1 ==
  [][ PrimaryPressStep =>
        \A event \in {last'} :
        \A world \in {clientToWorld(event.p.x, event.p.y, CanvasRect, viewState)} :
        \A idx \in {ClickedShapeIndex(world.x, world.y, shapes)} :
          (/\ idx # 0
           /\ shapes[idx].id \in selectedShapeIds
           /\ Cardinality(selectedShapeIds) > 1) =>
            /\ EntersOnly(TRUE, FALSE, FALSE, FALSE)
            /\ selectedShapeIds' = selectedShapeIds
            /\ selectedShapeId' = selectedShapeId
            /\ DOMAIN initialShapesPositions' = selectedShapeIds \cap IdsOf(shapes)
            /\ \A i \in DOMAIN shapes :
                 shapes[i].id \in selectedShapeIds =>
                   initialShapesPositions'[shapes[i].id] =
                     [x |-> shapes[i].x, y |-> shapes[i].y]
            /\ dragStartMousePos' = <<[worldX |-> world.x, worldY |-> world.y]>> ]_vars

\* C6 happens: in selection mode a press on one of two selected shapes has
\* started a multi-drag with both in the baseline.
C6_Witness ==
  /\ AfterMultiPress
  /\ isSelectionMode
  /\ isDraggingMultipleShapes
  /\ Cardinality(last.sel) = 2
  /\ DOMAIN initialShapesPositions = last.sel

\* C7: a primary press whose topmost hit shape is the only selected one enters
\* DraggingSingle in either mode, leaves the selection as it was, and records
\* the offset toLogical(pointer) - (x, y) of that shape.
C7_PressRule2 ==
  [][ PrimaryPressStep =>
        \A event \in {last'} :
        \A world \in {clientToWorld(event.p.x, event.p.y, CanvasRect, viewState)} :
        \A idx \in {ClickedShapeIndex(world.x, world.y, shapes)} :
          (/\ idx # 0
           /\ selectedShapeIds = {shapes[idx].id}) =>
            /\ EntersOnly(FALSE, TRUE, FALSE, FALSE)
            /\ selectedShapeIds' = selectedShapeIds
            /\ selectedShapeId' = selectedShapeId
            /\ dragOffset' = [x |-> RSub(world.x, shapes[idx].x),
                              y |-> RSub(world.y, shapes[idx].y)] ]_vars

\* C7 happens: in selection mode a press on the one selected shape, away from
\* its corner, has started a single drag.
C7_Witness ==
  /\ last.op = "mousedown" /\ last.rule = "single"
  /\ isSelectionMode
  /\ isDraggingShape
  /\ Cardinality(last.sel) = 1
  /\ dragOffset # Pt(0, 0)

SelectPressOffSelection(idx) ==
  /\ isSelectionMode
  /\ idx = 0 \/ shapes[idx].id \notin selectedShapeIds

\* The machine enters RubberBandSelecting with the rectangle anchored at the
\* given logical point.
EntersRubberBandAt(world) ==
  /\ EntersOnly(FALSE, FALSE, FALSE, TRUE)
  /\ selectionRect' = <<[startX |-> world.x, startY |-> world.y,
                         endX |-> world.x, endY |-> world.y]>>
  /\ selectionStartPoint' = [x |-> world.x, y |-> world.y]

C10_PressRule5 ==
  [][ PrimaryPressStep =>
        \A event \in {last'} :
        \A world \in {clientToWorld(event.p.x, event.p.y, CanvasRect, viewState)} :
        \A idx \in {ClickedShapeIndex(world.x, world.y, shapes)} :
          (~isSelectionMode /\ idx = 0) =>
            /\ EntersOnly(FALSE, FALSE, TRUE, FALSE)
            /\ selectedShapeIds' = {}
            /\ selectedShapeId' = <<>>
            /\ shapes' = shapes
            /\ selectionRect' = <<>> ]_vars

\* C10 happens: a press on the empty canvas in Pan mode has emptied a
\* selection and started a pan.
C10_Witness ==
  /\ last.op = "mousedown" /\ last.rule = "pan"
  /\ last.sel # {}
  /\ selectedShapeIds = {}
  /\ isPanning

\* The ids of the shapes of the list that intersect the rectangle from
\* `anchor` to `corner`.
IdsIntersecting(anchor, corner) ==
  {shapes[i].id : i \in {j \in DOMAIN shapes :
     isShapeIntersectingRect(shapes[j], [startX |-> anchor.x, startY |-> anchor.y,
                                         endX |-> corner.x, endY |-> corner.y])}}

\* The latest event was a pointer move handled by the rubber-band branch.
AfterSelectMove == last.op = "mousemove" /\ last.rule = "select"

\* C11: after every pointer move of a rubber-band gesture the rectangle runs
\* from the anchor to toLogical(pointer) and the selection is exactly the set
\* of ids of the shapes of the list that intersect it; a shape selected before
\* the gesture is in it only if it intersects.
C11_LiveRubberBand ==
  AfterSelectMove =>
    \A world \in {LastWorld} :
      /\ isSelecting
      /\ selectionRect = <<[startX |-> selectionStartPoint.x,
                            startY |-> selectionStartPoint.y,
                            endX |-> world.x, endY |-> world.y]>>
      /\ selectedShapeIds = IdsIntersecting(selectionStartPoint, world)

\* C11 happens: a rubber-band move has selected a shape and dropped one that
\* was selected before the gesture.
C11_Witness ==
  /\ AfterSelectMove
  /\ selectedShapeIds # {}
  /\ last.sel \ selectedShapeIds # {}

\* A step that releases the button of a rubber-band gesture.
RubberBandRelease == ReleaseStep /\ isSelecting /\ selectionRect # <<>>

\* C12: the release of a rubber-band gesture discards the rectangle; after a
\* gesture with a move the selection is the one the last move computed, and
\* after a gesture without a move it is the set of shapes that intersect the
\* rectangle without area at the press point.
C12_ReleaseKeepsComputedSet ==
  [][ RubberBandRelease =>
        /\ selectionRect' = <<>>
        /\ ~isSelecting'
        /\ AfterSelectMove => selectedShapeIds' = selectedShapeIds
        /\ last.op = "mousedown" =>
             \A world \in {LastWorld} :
               selectedShapeIds' = IdsIntersecting(world, world) ]_vars

\* C12 happens: a rubber-band gesture without any move was released over a
\* shape, which is now selected.
C12_Witness ==
  /\ last.op = "mouseup" /\ last.rule = "select"
  /\ budget.move = MaxMoves
  /\ selectionRect = <<>>
  /\ selectedShapeIds # {}

\* C12 as stated: after a gesture without a move the selection after the
\* release is the selection as it was just after the press.
C12_ReleaseKeepsPressSelection ==
  [][ RubberBandRelease =>
        /\ selectionRect' = <<>>
        /\ ~isSelecting'
        /\ selectedShapeIds' = selectedShapeIds ]_vars

\* A step that handles a pointer move.
MoveStep == budget'.move = budget.move - 1

\* The list `shapeList` with the shapes of the given id put at (px, py) and
\* every other shape as it is.
WithShapeAt(shapeList, id, px, py) ==
  [i \in DOMAIN shapeList |->
     IF shapeList[i].id = id
     THEN [shapeList[i] EXCEPT !.x = px, !.y = py]
     ELSE shapeList[i]]

\* C13: every pointer move of a single-shape drag puts the shape that was
\* topmost under the pointer at the press at toLogical(pointer) minus the
\* offset recorded at the press and changes no other shape; a move to the
\* press point (the view being the same) puts it back where it was.
C13_SingleDragFollowsPointer ==
  [][ (MoveStep /\ isDraggingShape) =>
        \A event \in {last'} :
        \A world \in {clientToWorld(event.p.x, event.p.y, CanvasRect, viewState)},
           pressWorld \in {clientToWorld(lastPanPoint.x, lastPanPoint.y,
                                         CanvasRect, viewState)} :
        \A idx \in {ClickedShapeIndex(pressWorld.x, pressWorld.y, pressShapes)} :
          /\ idx # 0
          /\ shapes' = WithShapeAt(shapes, pressShapes[idx].id,
                                   RSub(world.x, dragOffset.x),
                                   RSub(world.y, dragOffset.y))
          /\ event.p = lastPanPoint =>
               /\ shapes'[idx].x = pressShapes[idx].x
               /\ shapes'[idx].y = pressShapes[idx].y ]_vars

\* C13 happens: a single-shape drag has moved one shape away from where the
\* press found it, and only that one.
C13_Witness ==
  /\ last.op = "mousemove" /\ last.rule = "single"
  /\ isDraggingShape
  /\ Cardinality({i \in DOMAIN shapes : shapes[i] # pressShapes[i]}) = 1

\* A pointer move handled in Panning.
PanMoveStep ==
  /\ MoveStep
  /\ isPanning
  /\ ~isDraggingShape /\ ~isDraggingMultipleShapes /\ ~isSelecting

\* C14: a pointer move in Panning adds (pointer - previous pointer) to the
\* view offset, so that the offset stands at its value at the press plus
\* (pointer - press pointer); the zoom, the shape list and the selection are
\* as they were.
C14_PanIsScreenTranslation ==
  [][ PanMoveStep =>
        \A event \in {last'}, after \in {viewState'} :
          /\ after.x = RAdd(viewState.x, RSub(event.p.x, lastPanPoint.x))
          /\ after.y = RAdd(viewState.y, RSub(event.p.y, lastPanPoint.y))
          /\ after.x = RAdd(pressView.view.x, RSub(event.p.x, pressView.p.x))
          /\ after.y = RAdd(pressView.view.y, RSub(event.p.y, pressView.p.y))
          /\ after.zoom = viewState.zoom
          /\ shapes' = shapes
          /\ selectedShapeIds' = selectedShapeIds
          /\ selectedShapeId' = selectedShapeId ]_vars

\* C14 happens: the second move of a pan gesture, at zoom 1/2, has left the
\* view away from where the press found it.
C14_Witness ==
  /\ last.op = "mousemove" /\ last.rule = "pan"
  /\ budget.press = MaxPresses - 1
  /\ budget.move <= MaxMoves - 2
  /\ viewState.zoom = Frac(1, 2)
  /\ viewState.x # pressView.view.x
  /\ lastPanPoint # pressView.p

\* A step in which the Space key goes down or up.
SpaceStep == isSpacePressed' # isSpacePressed

ModeStep == SpaceStep \/ canvasMode' # canvasMode

\* The branch of handleMouseMove that continues the gesture a press started
\* with the given branch of handleMouseDown (or a move continued).
GestureOf(rule) == IF rule = "new" THEN "single" ELSE rule

\* C16: a mode change made while a gesture is in progress leaves the gesture
\* flags, the drag baseline and offset, the rectangle, the selection, the
\* shapes and the view as they are, and every pointer move is handled by the
\* branch of the gesture the press started, whatever the mode has become.
C16_ModeChangeLeavesGesture ==
  [][ /\ ModeStep => UNCHANGED << gestureVars, selectionVars, appVars, viewState >>
      /\ MoveStep => last'.rule = GestureOf(last.rule) ]_vars

\* C16 happens: a rubber band started in selection mode is still in
\* progress, past a pointer move, with Space up and the mode buttons on Pan.
C16_Witness ==
  /\ AfterSelectMove
  /\ isSelecting
  /\ selectionRect # <<>>
  /\ ~isSelectionMode

\* A step that handles a wheel event with the zoom modifier.
WheelZoomStep == budget'.view = budget.view - 1 /\ last'.op = "wheelzoom"

\* C17: a wheel zoom, in Idle or during any gesture, changes the view state
\* only: the gesture flags, the selection, the rectangle, the drag offset and
\* baseline, the shapes and the mode are as they were.
C17_WheelZoomChangesViewOnly ==
  [][ WheelZoomStep =>
        UNCHANGED << gestureVars, selectionVars, appVars, modeVars >> ]_vars

\* C17 happens: a wheel zoom changed the view in the middle of a multi-drag.
C17_Witness ==
  /\ last.op = "wheelzoom"
  /\ isDraggingMultipleShapes
  /\ DOMAIN initialShapesPositions # {}
  /\ viewState # pressView.view

\* C18: onViewStateChange is called at most once per quiet period: never twice
\* without the view state having been set in between, shape drags that leave
\* the view state alone included.
C18_NotifiedOncePerViewChange == notified.count <= 1

\* The indices of the shapes of the list that contain the logical point.
HitsAt(world, shapeList) ==
  {i \in DOMAIN shapeList : isPointInShape(world.x, world.y, shapeList[i])}

Doubled(q) == (2 * q[1]) \div q[2]

\* (u - o) x (v - o) for points <<x, y>> with integer coordinates.
Cross(o, u, v) == (u[1] - o[1]) * (v[2] - o[2]) - (u[2] - o[2]) * (v[1] - o[1])

\* The reference predicates, in integer arithmetic on doubled coordinates.
\* Box: left <= px <= right and top <= py <= bottom.
RefInBox(shape, p) ==
  /\ Doubled(shape.x) <= Doubled(p.x)
  /\ Doubled(p.x) <= Doubled(shape.x) + Doubled(shape.width)
  /\ Doubled(shape.y) <= Doubled(p.y)
  /\ Doubled(p.y) <= Doubled(shape.y) + Doubled(shape.height)

\* Circle: squared distance from the box centre <= (min(width, height) / 2)^2.
RefInCircle(shape, p) ==
  LET cx == Doubled(shape.x) + shape.width[1]
      cy == Doubled(shape.y) + shape.height[1]
      r  == IF shape.width[1] <= shape.height[1] THEN shape.width[1] ELSE shape.height[1]
      dx == Doubled(p.x) - cx
      dy == Doubled(p.y) - cy
  IN  dx * dx + dy * dy <= r * r

\* Triangle: the point is on no edge's outer side, for the apex (x + w/2, y)
\* and the base corners (x, y + h) and (x + w, y + h).
RefInTriangle(shape, p) ==
  LET apex  == <<Doubled(shape.x) + shape.width[1], Doubled(shape.y)>>
      left  == <<Doubled(shape.x), Doubled(shape.y) + Doubled(shape.height)>>
      right == <<Doubled(shape.x) + Doubled(shape.width),
                 Doubled(shape.y) + Doubled(shape.height)>>
      q     == <<Doubled(p.x), Doubled(p.y)>>
      sides == {Cross(apex, left, q), Cross(left, right, q), Cross(right, apex, q)}
  IN  ~((\E d \in sides : d < 0) /\ (\E d \in sides : d > 0))

RefContains(shape, p) ==
  CASE shape.type \in {"text", "square"} -> RefInBox(shape, p)
    [] shape.type = "circle"             -> RefInCircle(shape, p)
    [] shape.type = "triangle"           -> RefInTriangle(shape, p)

IntMax(a, b) == IF a >= b THEN a ELSE b
IntMin(a, b) == IF a <= b THEN a ELSE b

\* How far the coordinate c lies outside the interval between a and b, which
\* are in either order.
Outside(c, a, b) == IntMax(0, IntMax(IntMin(a, b) - c, c - IntMax(a, b)))

\* The reference predicates of the rectangle test, in integer arithmetic on
\* doubled coordinates.  Box: the two closed rectangles share a point.
RefBoxOverlaps(shape, rect) ==
  /\ IntMax(Doubled(shape.x), IntMin(Doubled(rect.startX), Doubled(rect.endX)))
       <= IntMin(Doubled(shape.x) + Doubled(shape.width),
                 IntMax(Doubled(rect.startX), Doubled(rect.endX)))
  /\ IntMax(Doubled(shape.y), IntMin(Doubled(rect.startY), Doubled(rect.endY)))
       <= IntMin(Doubled(shape.y) + Doubled(shape.height),
                 IntMax(Doubled(rect.startY), Doubled(rect.endY)))

\* Circle: the distance from the centre to the rectangle is at most the radius.
RefCircleOverlaps(shape, rect) ==
  LET r  == IntMin(shape.width[1], shape.height[1])
      dx == Outside(Doubled(shape.x) + shape.width[1],
                    Doubled(rect.startX), Doubled(rect.endX))
      dy == Outside(Doubled(shape.y) + shape.height[1],
                    Doubled(rect.startY), Doubled(rect.endY))
  IN  dx * dx + dy * dy <= r * r

\* The rectangle with its corners exchanged: start and end, or only their
\* x coordinates.
CornerOrders(rect) ==
  { [startX |-> rect.endX, startY |-> rect.endY, endX |-> rect.startX, endY |-> rect.startY],
    [startX |-> rect.endX, startY |-> rect.startY, endX |-> rect.startX, endY |-> rect.endY],
    [startX |-> rect.startX, startY |-> rect.endY, endX |-> rect.endX, endY |-> rect.startY] }

\* C21: isShapeIntersectingRect answers as the reference predicate of the
\* shape's kind, overlap of the two boxes for Square and Text and distance
\* from the circle's centre to the rectangle at most the radius for Circle,
\* and answers the same for every order of the rectangle's corners, whatever
\* the kind.  The rectangle (0, 0)-(200, 200) selects the square
\* (10, 10, 50, 50) and the circle of radius 20 about (190, 190) and not the
\* square (300, 300, 50, 50).
C21_RectTestMatchesReference ==
  last.op = "recttest" =>
    \A shape \in {shapes[1]}, rect \in {last.p} :
      /\ shape.type \in {"text", "square"} =>
           (last.rule = "selected") = RefBoxOverlaps(shape, rect)
      /\ shape.type = "circle" =>
           (last.rule = "selected") = RefCircleOverlaps(shape, rect)
      /\ \A other \in CornerOrders(rect) :
           (last.rule = "selected") = isShapeIntersectingRect(shape, other)
      /\ rect \in {RectOf(0, 0, 200, 200)} \cup CornerOrders(RectOf(0, 0, 200, 200)) =>
           /\ shape = Shape("h", "square", 10, 10, 50, 50) => last.rule = "selected"
           /\ shape = Shape("h", "circle", 170, 170, 40, 40) => last.rule = "selected"
           /\ shape = Shape("h", "square", 300, 300, 50, 50) => last.rule = "missed"

\* The documented rectangle, given from its far corner, has been tested
\* against the documented circle, which it overlaps in part, and selects it.
C21_Witness ==
  /\ last.op = "recttest"
  /\ last.p = RectOf(200, 200, 0, 0)
  /\ shapes[1] = Shape("h", "circle", 170, 170, 40, 40)
  /\ last.rule = "selected"

\* C22: for a triangle of width 0 or height 0 isPointInShape divides by no
\* zero, so every quotient it computes is finite, and answers "outside" for
\* every point, the points on the degenerate segment included.
C22_DegenerateTriangleNoDivision ==
  (/\ last.op = "hittest"
   /\ shapes[1].type = "triangle"
   /\ shapes[1].width = Zero \/ shapes[1].height = Zero) =>
    /\ last.rule = "outside"
    /\ \A q \in last.sel : q[2] # 0

\* C23: for a circle with min(width, height) = 0 isPointInShape answers
\* "outside" for every point, the centre of the box included.
C23_ZeroRadiusCircleNoHit ==
  (/\ last.op = "hittest"
   /\ shapes[1].type = "circle"
   /\ shapes[1].width = Zero \/ shapes[1].height = Zero) =>
    last.rule = "outside"

\* C24: for every view state with zoom > 0, a screen point taken to the
\* logical plane and back is the same screen point, and a logical point
\* taken to the screen and back is the same logical point.
C24_RoundTrip ==
  last.op = "roundtrip" =>
    /\ last.sel.screenBack = last.p
    /\ last.sel.worldBack = last.p

\* A point off the origin has gone both ways under a view that is zoomed and
\* shifted, where neither conversion leaves it in place.
C24_Witness ==
  /\ last.op = "roundtrip"
  /\ viewState.zoom = Frac(11, 10)
  /\ viewState.x = Num(0 - 3)
  /\ last.p = Pt(150, 50)
  /\ screenToWorld(last.p.x, last.p.y, viewState) # last.p
  /\ worldToScreen(last.p.x, last.p.y, viewState) # last.p
  /\ last.sel.screenBack = last.p

\* A step of fitToView.
FitStep == last'.op = "fit" /\ budget'.view = budget.view - 1

IntMinOf(S) == CHOOSE m \in S : \A t \in S : m <= t
IntMaxOf(S) == CHOOSE m \in S : \A t \in S : t <= m

\* A shape's bounds in doubled coordinates <<left, top, right, bottom>>: its
\* box, and for a circle the square about the drawn circle.
RefBounds(shape) ==
  LET x2 == Doubled(shape.x)
      y2 == Doubled(shape.y)
      w  == shape.width[1]
      h  == shape.height[1]
      r2 == IntMin(w, h)
  IN  IF shape.type = "circle"
      THEN <<x2 + w - r2, y2 + h - r2, x2 + w + r2, y2 + h + r2>>
      ELSE <<x2, y2, x2 + 2 * w, y2 + 2 * h>>

\* The union of the bounds of a non-empty list, expanded by the padding on
\* every side, in doubled coordinates.
RefFitBox(shapeList) ==
  LET bs == {RefBounds(shapeList[i]) : i \in DOMAIN shapeList}
  IN  << IntMinOf({b[1] : b \in bs}) - 2 * FitPadding,
         IntMinOf({b[2] : b \in bs}) - 2 * FitPadding,
         IntMaxOf({b[3] : b \in bs}) + 2 * FitPadding,
         IntMaxOf({b[4] : b \in bs}) + 2 * FitPadding >>

\* The zoom is the least of the two viewport-to-box ratios and FitMaxZoom.
IsFitZoom(zoom, box, canvasRect) ==
  \A ratios \in {{ Frac(2 * canvasRect.width[1], box[3] - box[1]),
                    Frac(2 * canvasRect.height[1], box[4] - box[2]),
                    Num(FitMaxZoom) }} :
    /\ zoom \in ratios
    /\ \A ratio \in ratios : RLe(zoom, ratio)

\* The screen rectangle of doubled logical bounds lies in the viewport.
InViewport(b, view, canvasRect) ==
  \A topLeft \in {worldToScreen(Frac(b[1], 2), Frac(b[2], 2), view)},
     bottomRight \in {worldToScreen(Frac(b[3], 2), Frac(b[4], 2), view)} :
    /\ RLe(Zero, topLeft.x) /\ RLe(Zero, topLeft.y)
    /\ RLe(bottomRight.x, canvasRect.width) /\ RLe(bottomRight.y, canvasRect.height)

C26_FitOfNothingCentresOrigin ==
  [][ (FitStep /\ Len(shapes) = 0) =>
        \A canvasRect \in {last'.p}, after \in {viewState'} :
          /\ after.zoom = Num(1)
          /\ after.x[1] * 2 = canvasRect.width[1] * after.x[2]
          /\ after.y[1] * 2 = canvasRect.height[1] * after.y[2]
          /\ worldToScreen(Zero, Zero, after)
               = [x |-> Frac(canvasRect.width[1], 2), y |-> Frac(canvasRect.height[1], 2)] ]_vars

\* The empty canvas has been fitted from a view that was zoomed and shifted.
C26_Witness ==
  /\ last.op = "fit"
  /\ Len(shapes) = 0
  /\ pressView.view.zoom = Num(5)
  /\ pressView.view.x = Num(12)
  /\ viewState = [x |-> Num(200), y |-> Num(150), zoom |-> Num(1)]

\* C27: fitToView called again with the same shape list and viewport size
\* leaves the view state as the first call set it, whatever the view state
\* was before the first call.
C27_FitToViewIdempotent ==
  [][ (FitStep /\ last.op = "fit" /\ last'.p = last.p) => viewState' = viewState ]_vars

\* fitToView has run twice on the same viewport, the first time from a view
\* it had to change.
C27_Witness ==
  /\ last.op = "fit"
  /\ budget.view = FitMaxOps - 2
  /\ Len(shapes) > 0
  /\ viewState # pressView.view
  /\ viewState = fitToView(shapes, last.p)

\* A view state with a numeric zoom that is positive and within [0.1, 5].
IsWellFormedView(view) ==
  /\ view.zoom # << >>
  /\ RLt(Zero, view.zoom)
  /\ RLe(ZoomMin, view.zoom)
  /\ RLe(view.zoom, ZoomMax)

\* C28: after a canvas is loaded whose stored view state is absent or
\* malformed (zoom not numeric, zoom <= 0, zoom outside [0.1, 5]) the view
\* state is the default, zoom 1 with logical (0, 0) at the centre of the
\* viewport, and the view state installed by a load is never malformed.
C28_LoadFallsBackToDefault ==
  last.op = "load" =>
    /\ IsWellFormedView(viewState)
    /\ (last.sel = << >> \/ ~IsWellFormedView(last.sel[1])) =>
         viewState = [x |-> Half(CanvasRect.width), y |-> Half(CanvasRect.height),
                      zoom |-> Num(1)]

\* C29: a move callback for an id that is not in the shape list is skipped:
\* a single-shape move for an absent id leaves the shape list as it is, and
\* a multi-shape move changes the x and y of the listed shapes that are
\* present and nothing else, neither the other shapes nor the length or the
\* order of the list.
C29_AbsentIdsSkipped ==
  [][ MoveStep =>
        \A event \in {last'}, after \in {shapes'} :
          /\ (event.rule = "single" /\ selectedShapeId[1] \notin IdsOf(shapes)) =>
               after = shapes
          /\ event.rule = "multi" =>
               /\ DOMAIN after = DOMAIN shapes
               /\ \A i \in DOMAIN shapes :
                    IF shapes[i].id \in selectedShapeIds
                    THEN after[i] = [shapes[i] EXCEPT !.x = after[i].x, !.y = after[i].y]
                    ELSE after[i] = shapes[i] ]_vars

\* Two shapes were being dragged, the list was replaced by one without the
\* second shape, and the pointer has moved: the shape still there has moved.
C29_Witness ==
  /\ last.op = "mousemove" /\ last.rule = "multi"
  /\ selectedShapeIds = {"a", "b"}
  /\ IdsOf(shapes) = {"a"}
  /\ shapes[1].x # Num(2)

\* The ids a pointer move drags: the selection in a multi-shape drag, the
\* selected shape in a single-shape drag, none otherwise.
DraggedIds(rule) ==
  CASE rule = "multi"  -> selectedShapeIds
    [] rule = "single" -> {selectedShapeId[1]}
    [] OTHER           -> {}

\* C30: presses, moves and releases change nothing of the shape list but the
\* x and y of the dragged shapes: every shape keeps its id, kind, width,
\* height, color and content, the list keeps its length and order, and the
\* shapes that are not dragged keep their x and y.
C30_DragsChangeOnlyPositions ==
  [][ \A event \in {last'}, after \in {shapes'} :
        /\ DOMAIN after = DOMAIN shapes
        /\ \A i \in DOMAIN shapes :
             /\ after[i].id = shapes[i].id
             /\ after[i].type = shapes[i].type
             /\ after[i].width = shapes[i].width
             /\ after[i].height = shapes[i].height
             /\ after[i].color = shapes[i].color
             /\ after[i].content = shapes[i].content
             /\ (~MoveStep \/ shapes[i].id \notin DraggedIds(event.rule)) =>
                  (after[i].x = shapes[i].x /\ after[i].y = shapes[i].y) ]_vars

\* Two shapes have been dragged together and released; the third is where
\* it was.
C30_Witness ==
  /\ last.op = "mouseup"
  /\ selectedShapeIds = {"a", "b"}
  /\ shapes[1].x # InitialShapes[1].x
  /\ shapes[2].y # InitialShapes[2].y
  /\ shapes[3] = InitialShapes[3]

\* A step whose handler computes the selection set: a primary press that
\* selects the clicked shape or empties the selection, a rubber-band move, a
\* rubber-band release.
ComputesSelection ==
  \A event \in {last'} :
    \/ PrimaryPressStep /\ event.rule \in {"new", "pan"}
    \/ MoveStep /\ event.rule = "select"
    \/ RubberBandRelease

\* C31: every id of a selection set computed by a press, a rubber-band move
\* or a release is the id of a shape of the list the handler was given; and
\* as long as no other list has been loaded, the selection set holds only ids
\* of shapes of the list in every state.
C31_SelectionIdsAreShapeIds ==
  /\ [](budget.view = RemovalMaxLoads => selectedShapeIds \subseteq IdsOf(shapes))
  /\ [][ComputesSelection => selectedShapeIds' \subseteq IdsOf(shapes)]_vars

\* C31 happens: after a shorter list was loaded a rubber-band move has
\* selected a shape of it.
C31_Witness ==
  /\ AfterSelectMove
  /\ IdsOf(shapes) # ShapeIds
  /\ budget.view < RemovalMaxLoads
  /\ selectedShapeIds # {}

\* The number of gesture flags that are set.
FlagsSet ==
  Cardinality({f \in {"panning", "single", "multi", "selecting"} :
                 \/ f = "panning" /\ isPanning
                 \/ f = "single" /\ isDraggingShape
                 \/ f = "multi" /\ isDraggingMultipleShapes
                 \/ f = "selecting" /\ isSelecting})

\* C33: the machine is in exactly one of Idle, Panning, DraggingSingle,
\* DraggingMultiple and RubberBandSelecting: at most one of isPanning,
\* isDraggingShape, isDraggingMultipleShapes and isSelecting is set, whatever
\* the order of primary presses, middle presses, touch starts, moves and
\* releases.
C33_OneGestureAtATime == FlagsSet <= 1

Idle == FlagsSet = 0

\* C34: at rest the single-selection id and the selection set agree: the
\* set has exactly one member if and only if selectedShapeId is that member,
\* and selectedShapeId is null when the set is empty or holds several ids;
\* and a single drag started on the only selected shape moves that shape.
C34_SelectionIdAgreesWithSet ==
  /\ [](Idle => selectedShapeId =
                  IF Cardinality(selectedShapeIds) = 1
                  THEN <<CHOOSE id \in selectedShapeIds : TRUE>>
                  ELSE <<>>)
  /\ [][ \A event \in {last'}, after \in {shapes'} :
           (MoveStep /\ event.rule = "single" /\ last.op = "mousedown"
              /\ last.rule = "single") =>
             \A world \in {clientToWorld(event.p.x, event.p.y, CanvasRect, viewState)} :
               /\ selectedShapeIds = {selectedShapeId[1]}
               /\ after = WithShapeAt(shapes, selectedShapeId[1],
                                      RSub(world.x, dragOffset.x),
                                      RSub(world.y, dragOffset.y)) ]_vars

\* C34 happens: a shape was dragged and with it selected, then the other
\* shape became the only selected one, and a single drag started on it has
\* moved it.
C34_Witness ==
  /\ last.op = "mousemove" /\ last.rule = "single"
  /\ last.sel = {"a"}
  /\ selectedShapeId = <<"a">>
  /\ shapes[2] # InitialShapes[2]
  /\ shapes[1] # InitialShapes[1]

\* C37: for a triangle with width, height > 0 isShapeIntersectingRect
\* answers as the overlap test of the triangle's bounding box and the
\* rectangle: a rectangle in a corner of the box that the triangle does not
\* cover selects the triangle.
C37_TriangleIsBoxOverlap ==
  (/\ last.op = "recttest"
   /\ shapes[1].type = "triangle"
   /\ RLt(Zero, shapes[1].width) /\ RLt(Zero, shapes[1].height)) =>
    (last.rule = "selected") = RefBoxOverlaps(shapes[1], last.p)

\* C37 happens: the rectangle (-3, -3)-(0, 0) meets the bounding box of the
\* triangle on (0, 0, 4, 4) at the corner (0, 0) only, which is outside the
\* triangle, and it selects the triangle.
C37_Witness ==
  /\ last.op = "recttest"
  /\ shapes[1] = Shape("h", "triangle", 0, 0, 4, 4)
  /\ last.p = RectOf(0 - 3, 0 - 3, 0, 0)
  /\ ~RefInTriangle(shapes[1], Pt(0, 0))
  /\ last.rule = "selected"

\* C38: a shape that contains a logical point is selected by the rectangle
\* with both corners at the point and by every rectangle that holds the
\* point, whatever the kind of the shape.
C38_ClickableIsSelectable ==
  (last.op = "pointrect" /\ last.rule = "inside") =>
    /\ last.sel.selected
    /\ isShapeIntersectingRect(shapes[1], PointRect(last.p))

\* C38 happens: a point on the circle itself, where the distance to the
\* centre is the radius, is in the circle, and the rectangle without area at
\* that point selects the circle.
C38_Witness ==
  /\ last.op = "pointrect" /\ last.rule = "inside"
  /\ shapes[1] = Shape("h", "circle", 0, 0, 4, 4)
  /\ last.p = Pt(0, 2)
  /\ last.sel.rect = PointRect(last.p)
  /\ last.sel.selected

\* C32: the ids of the shapes in the list are pairwise distinct, also after
\* two addShape calls at the same reading of the clock, and a move of a
\* single shape changes the position of at most one shape.
C32_ShapeIdsUnique ==
  /\ [](\A i, j \in 1..Len(shapes) : shapes[i].id = shapes[j].id => i = j)
  /\ [][\A event \in {last'}, after \in {shapes'} :
          (event.op = "mousemove" /\ event.rule = "single") =>
            Cardinality({i \in 1..Len(shapes) :
                           after[i].x # shapes[i].x \/ after[i].y # shapes[i].y}) <= 1]_vars

\* The current id of a store is null or the id of one of its canvases.
CurrentIdIsStored(ls) ==
  \/ getCurrentCanvasId(ls) = <<>>
  \/ \E i \in 1..Len(getAllCanvases(ls)) :
       getCurrentCanvasId(ls) = <<getAllCanvases(ls)[i].id>>

\* Canvases of a list other than those with the given id, in the list's order.
Remaining(list, id) == SelectSeq(list, LAMBDA canvas : canvas.id # id)

C40_DeleteReloadsOnlyCurrent ==
  /\ [][\A event \in {last'} :
          (event.op = "delete" /\ event.sel.loaded # <<event.rule>>) =>
            /\ currentCanvas' = currentCanvas
            /\ shapes' = shapes
            /\ restoreTimers' = restoreTimers]_vars
  /\ [](last.op = "delete" => getCurrentCanvasId(localStorage) = currentCanvas)

\* C35: when the save timer fires for a canvas the user has left by
\* selecting another one, and nothing else was done since, the record of the
\* canvas left holds shapes and a view that canvas had: those it was left
\* with or those the timer was started with.
C35_SaveNeverMixesCanvases ==
  [][\A pending \in {saveTimeoutRef}, event \in {last}, after \in {localStorage'} :
       ( /\ pending # <<>>
         /\ saveTimeoutRef' = <<>>
         /\ event.op = "select"
         /\ event.sel.left = <<pending[1].canvasId>>
         /\ currentCanvas # <<pending[1].canvasId>> ) =>
         \A stored \in {getCanvasById(after, pending[1].canvasId)} :
           stored # <<>> =>
             /\ stored[1].viewState \in {<<event.sel.view>>, pending[1].viewState}
             /\ stored[1].shapes \in {event.sel.shapes, pending[1].shapes}]_vars

\* Ids of the canvases stored when the page is opened.
StoredIds ==
  UNION { {storage.canvases[i].id : i \in 1..Len(storage.canvases)} :
          storage \in InitialStorages }

\* The latest event changed the shapes or the view of the loaded canvas c.
ModifiedOn(c) ==
  /\ currentCanvas = <<c>>
  /\ \/ last.op = "add"
     \/ last.op = "mousemove" /\ last.rule \in {"single", "multi", "pan"}

\* The stored record of c holds the shape list and the view state shown.
IsSaved(c) ==
  \A stored \in {getCanvasById(localStorage, c)} :
    /\ stored # <<>>
    /\ stored[1].shapes = shapes
    /\ stored[1].viewState = <<viewState>>

\* C36: after a change of the shapes or of the view of the loaded canvas,
\* also one made while saves are suppressed after a load, the stored record
\* of that canvas eventually holds the current shape list and view state,
\* unless the user leaves the canvas first.
C36_ModificationsEventuallySaved ==
  \A c \in StoredIds : ModifiedOn(c) ~> (currentCanvas # <<c>> \/ IsSaved(c))

====
